---- MODULE Spec2Model ----
(***************************************************************************)
(* The DataFlowKernel of parsl/dataflow/dflow.py as a state machine.       *)
(*                                                                         *)
(* Threads.  The kernel runs on the user thread (thread 0, which calls     *)
(* submit) and on the executors' threads: the thread that completes        *)
(* executor future f (thread f) runs the callbacks installed on f.  A      *)
(* callback installed on a future that is already done runs inline in the  *)
(* installing thread.  Each thread owns a stack of frames: the code it     *)
(* still has to run, innermost call first.  One action executes the top    *)
(* frame of one thread; the frames are the pieces of the handlers between  *)
(* which another thread can observe or change the shared task table.       *)
(***************************************************************************)
EXTENDS Integers, Sequences, FiniteSets, TLC

\* ------------------------------------------------------------------ bounds
MaxTasks == 3
MaxRetries == 1
\* How many submissions to the executors a run is sized for: submit takes a
\* new task while every task can still use its whole retry budget.
MaxAttempts == 4
\* The threads that call into the kernel at the same time, and the calls of
\* cleanup they make between them.
NumCallers == 2
MaxCleanups == 2
\* The calls of checkpoint() the timer and the user make in a run, besides
\* those at task exit.
MaxCheckpoints == 2
\* The tasks of a run that checkpoints.
MaxCheckpointTasks == 2
\* The complete records of a checkpoint file that is loaded.
MaxRecords == 2

\* --------------------------------------------------------------- constants
\* exec_fu = None (dflow.py:687), the argument of AppFuture(None, ...).
NoFu == 0
\* The future a memo lookup returned (memo_fu, dflow.py:471).
MemoFu == -1
\* The future synthesised for a dependency failure (fu, dflow.py:435).
DepFailFu == -2
\* task_launch_lock not held.
NoThread == -1
\* The user thread, which calls submit.
UserThread == 0
\* The thread of the checkpoint timer (dflow.py:203).
TimerThread == -3

VARIABLES
    config,       \* self._config: retries, lazy_errors, app_cache, executors,
                  \* checkpoint_mode
    task_count,   \* self.task_count
    tasks,        \* self.tasks: task id -> task record
    app_fus,      \* the AppFuture of each task (tasks[id]['app_fu'])
    futs,         \* the futures the executors returned, by future id
    memo,         \* memoizer.memo_lookup_table: hashsum -> completed future
    threads,      \* thread id -> stack of frames
    hist,         \* history: per task, the calls made for it so far
    cleanup_called,  \* self.cleanup_called
    calls,        \* history: the kernel calls started and what they did
    checkpoint_lock,  \* self.checkpoint_lock: the thread holding it
    tasks_pkl,    \* the file checkpoint/tasks.pkl of the run directory
    strategy,     \* the Strategy object: strategize and idle_since
    dfk_executors,  \* the executor the strategy scales, with its provider
    now,          \* time.time() at the latest strategize call
    last_tick,    \* history: what the latest strategize call did
    _dfk,         \* DataFlowKernelLoader._dfk: the active kernel, or None
    loader_calls  \* history: the calls of DataFlowKernelLoader's methods

vars == <<config, task_count, tasks, app_fus, futs, memo, threads, hist,
          cleanup_called, calls, checkpoint_lock, tasks_pkl,
                   strategy, dfk_executors, now, last_tick, _dfk, loader_calls>>

\* None, as the value of idle_since (strategy.py:117); like None, it is
\* not a time and is false in a condition. Times are counted in minutes.
None == 0

\* What the latest strategize call did, before the first call.
NoTick == [case |-> "none", calls |-> <<>>, raised |-> FALSE,
           idle_run |-> None]

\* A kernel whose configuration names no strategy: strategize is
\* _strategy_noop and nothing is scaled (strategy.py:108-125).
NoStrategy ==
    /\ strategy = [strategize |-> "noop", idle_since |-> None]
    /\ dfk_executors = <<>>
    /\ now = 0
    /\ last_tick = NoTick

\* parsl.dataflow.states
FINAL_STATES == {"done", "failed", "dep_fail"}
FINAL_FAILURE_STATES == {"failed", "dep_fail"}

\* ------------------------------------------------------------ values
\* The value an app returns, and the errors a future can hold.
AppResult(t) == t + 1
NoResult == 0
NoExc == [kind |-> "none", tid |-> -1, causes |-> <<>>]
\* The exception raised by an execution attempt of task t.
AppError(t) == [kind |-> "exc", tid |-> t, causes |-> <<>>]
\* DependencyError(exceptions, task_id, None), dflow.py:439.
DependencyError(exceptions, task_id) ==
    [kind |-> "dep", tid |-> task_id, causes |-> exceptions]

\* An argument: a future (the AppFuture of task d) or a plain value.
FutArg(d) == [k |-> "fut", d |-> d, v |-> NoResult]
ValArg(v) == [k |-> "val", d |-> -1, v |-> v]
IsFut(a) == a.k = "fut"

Frame(op, t, f, x) == [op |-> op, t |-> t, f |-> f, x |-> x]

\* The name of the future of the k-th submission of task t to its executor;
\* the thread that completes that future carries the same name.
FutId(t, k) == t + MaxTasks * (k - 1) + 1

\* ------------------------------------------------------------ futures
\* What a completed future holds.
Completed(st, res, exc) == [state |-> st, result |-> res, exception |-> exc]

\* The state of executor future f as a caller of result() sees it. A future
\* completed with a RemoteExceptionWrapper ("wrapped") raises the remote
\* error when the caller reraises it (dflow.py:289-292).
FutView(f) ==
    Completed(IF futs[f].state = "wrapped" THEN "err" ELSE futs[f].state,
              IF futs[f].state = "ok" THEN AppResult(futs[f].tid) ELSE NoResult,
              IF futs[f].state \in {"err", "wrapped"}
              THEN AppError(futs[f].tid) ELSE NoExc)

\* The future a frame is about: the memo future travels in the frame.
View(fr) == IF fr.f = MemoFu THEN fr.x[1] ELSE FutView(fr.f)

\* dep.done() and dep.result() of the AppFuture of task d.
Done(d) == app_fus[d].state # "pending"
Raises(a) == IsFut(a) /\ app_fus[a.d].state = "err"

\* ------------------------------------------------- dependency resolver
FutsOf(s) ==
    LET fs == SelectSeq(s, IsFut) IN [i \in 1..Len(fs) |-> fs[i].d]

\* _gather_all_deps: the futures among args, kwargs and kwargs['inputs'].
_gather_all_deps(args, kwargs, inputs) ==
    FutsOf(args) \o FutsOf(kwargs) \o FutsOf(inputs)

\* A count that misses the first dependency.
_count_deps_skip_first(depends) ==
    Cardinality({i \in DOMAIN depends : i > 1 /\ ~Done(depends[i])})

\* _count_deps: how many of depends are not done.
_count_deps(depends) ==
    Cardinality({i \in DOMAIN depends : ~Done(depends[i])})

\* sanitize_and_wrap on a list (args or inputs): a future is replaced by its
\* result; one whose result() raises is not appended to the new list.
WrapList(s) ==
    LET kept == SelectSeq(s, LAMBDA a : ~Raises(a))
    IN  [i \in 1..Len(kept) |->
            IF IsFut(kept[i]) THEN ValArg(app_fus[kept[i].d].result)
            ELSE kept[i]]

\* sanitize_and_wrap on kwargs: kwargs[key] is overwritten only when result()
\* returns, so a future that raises stays in place.
WrapDict(s) ==
    [i \in DOMAIN s |->
        IF IsFut(s[i]) /\ ~Raises(s[i]) THEN ValArg(app_fus[s[i].d].result)
        ELSE s[i]]

\* The errors collected from one list: those of the futures whose result()
\* raises and whose task is in a final failure state.
DepFailures(s) ==
    LET bad == SelectSeq(s, LAMBDA a :
                   Raises(a) /\ tasks[a.d].status \in FINAL_FAILURE_STATES)
    IN  [i \in 1..Len(bad) |-> app_fus[bad[i].d].exception]

sanitize_and_wrap(args, kwargs, inputs) ==
    [args |-> WrapList(args),
     kwargs |-> WrapDict(kwargs),
     inputs |-> WrapList(inputs),
     exceptions |-> DepFailures(args) \o DepFailures(kwargs) \o DepFailures(inputs)]

\* ------------------------------------------------------------ memoizer
NoHash == <<>>
\* The fingerprint of a task: its function and its resolved arguments.
make_hash(task) == <<task.func_name, task.args, task.kwargs, task.inputs>>

Memoizable(task) == config.app_cache /\ task.memoize

\* check_memo: the hashsum the task gets, and whether the table holds it.
check_memo_hashsum(task) == IF Memoizable(task) THEN make_hash(task) ELSE NoHash
check_memo_hit(task) == Memoizable(task) /\ make_hash(task) \in DOMAIN memo

\* An update that stores the future of a task whatever its outcome.
update_memo_any_outcome(task, fut) ==
    IF Memoizable(task)
    THEN [h \in DOMAIN memo \cup {task.hashsum} |->
             IF h = task.hashsum
             THEN Completed(fut.state, fut.result, fut.exception)
             ELSE memo[h]]
    ELSE memo

\* update_memo: a task that opted in and succeeded stores its future.
update_memo(task, fut) ==
    IF Memoizable(task) /\ fut.state = "ok"
    THEN [h \in DOMAIN memo \cup {task.hashsum} |->
             IF h = task.hashsum THEN Completed("ok", fut.result, NoExc)
             ELSE memo[h]]
    ELSE memo

\* ------------------------------------------------------------- threads
Threads == DOMAIN threads
Running(th) == threads[th] # <<>>
Top(th) == Head(threads[th])
\* The thread goes on with `frames`, then with what it had left to do.
Continue(th, frames) == [threads EXCEPT ![th] = frames \o Tail(@)]

\* ----------------------------------------------------------- AppFuture
\* Future.set_result / set_exception on the AppFuture of task t: the first
\* set wins and runs the callbacks in the order they were added; a second set
\* is an error, which the caller (a callback) logs and drops.
AppFuSet(th, t, fut) ==
    IF app_fus[t].state = "pending"
    THEN /\ app_fus' = [app_fus EXCEPT ![t] =
                [@ EXCEPT !.state = fut.state, !.result = fut.result,
                          !.exception = fut.exception]]
         /\ threads' = Continue(th, app_fus[t].cbs)
    ELSE /\ UNCHANGED app_fus
         /\ threads' = Continue(th, <<>>)

\* AppFuture.parent_callback: mirror the parent future onto the AppFuture;
\* an error of a parent that has retries left is not published.
parent_callback(th, t, fut, retries_left) ==
    IF fut.state = "err" /\ retries_left > 0
    THEN /\ threads' = Continue(th, <<>>)
         /\ UNCHANGED app_fus
    ELSE AppFuSet(th, t, fut)

\* ------------------------------------------------------------------ init
\* The configurations explored: every retry budget with lazy_errors, the
\* largest one without, and the application cache with no retries.
Configs ==
    {c \in [retries : 0..MaxRetries, lazy_errors : BOOLEAN, app_cache : BOOLEAN,
            executors : {{"threads", "data_manager"}},
            checkpoint_mode : {"none"}] :
        /\ ~c.lazy_errors => c.retries = MaxRetries
        /\ c.app_cache => (c.retries = 0 /\ c.lazy_errors)}

\* No call of submit or cleanup made, no exit hook run, no shutdown done, and
\* no call started while another thread was inside the kernel; no checkpoint
\* called and none loaded.
NoCalls ==
    [submit |-> 0, raised |-> 0, cleanup |-> 0, atexit |-> 0, shutdown |-> 0,
     concurrent |-> FALSE, checkpoint |-> 0, load |-> <<>>]

NoHist ==
    [launches |-> 0, submits |-> 0, since_pending |-> 0, updates |-> 0,
     cached |-> <<>>, executors |-> <<>>, checkpointed |-> 0,
     stage_outs |-> <<>>]

\* The task a submit of a function of no arguments creates: the key of the
\* record a checkpoint of an earlier run can hold.
CheckpointedHash == <<"f", <<>>, <<>>, <<>>>>

\* The result the earlier run recorded: a value no task of this run computes.
CheckpointResult == MaxTasks + 1

\* load_checkpoints: no checkpoint files, or a log holding one record.
CheckpointTables ==
    {<<>>, (CheckpointedHash :> Completed("ok", CheckpointResult, NoExc))}

Init ==
    /\ config \in Configs
    /\ task_count = 0
    /\ tasks = <<>>
    /\ app_fus = <<>>
    /\ futs = <<>>
    /\ memo \in (IF config.app_cache THEN CheckpointTables ELSE {<<>>})
    /\ threads = (UserThread :> <<>>)
    /\ hist = <<>>
    /\ cleanup_called = FALSE
    /\ calls = NoCalls
    /\ checkpoint_lock = NoThread
    /\ tasks_pkl = <<>>
    /\ NoStrategy
    /\ _dfk = None
    /\ loader_calls = <<>>

\* ---------------------------------------------------------------- submit
\* The dependencies a submission names: each kind is the place its future
\* is passed in; a submission of k futures depends on the k latest tasks.
DepShapes ==
    {<<>>, <<"arg">>, <<"kwarg">>, <<"inputs">>,
     <<"arg", "kwarg">>}

ArgsOf(shape, kind, task_id) ==
    LET n == Len(shape)
        idx == SelectSeq([i \in 1..n |-> i], LAMBDA i : shape[i] = kind)
    IN  [j \in 1..Len(idx) |-> FutArg(task_id - n + idx[j] - 1)]

\* The cache argument of submit: apps opt in when the kernel caches.
CacheChoices == {config.app_cache}

\* The submissions one task can take: one, and one more per retry.
AttemptsPerTask == IF config.lazy_errors THEN config.retries + 1 ELSE 1

\* The executors argument of submit: 'all', a list of labels, or a value
\* that is neither a string nor a list.
AllExecutors == [kind |-> "all", labels |-> <<>>]
ListOf(labels) == [kind |-> "list", labels |-> labels]
NotAList == [kind |-> "other", labels |-> <<>>]

\* choices with the staging executor left in.
choices_unfiltered(executors) ==
    CASE executors.kind = "all" -> config.executors
      [] executors.kind = "list" ->
             {executors.labels[i] : i \in DOMAIN executors.labels}
      [] OTHER -> {}

\* choices, dflow.py:669-672: the labels random.choice picks from.  The name
\* is not bound when executors is neither 'all' nor a list: nothing to pick.
choices(executors) ==
    CASE executors.kind = "all" ->
             {e \in config.executors : e # "data_manager"}
      [] executors.kind = "list" ->
             {executors.labels[i] : i \in DOMAIN executors.labels}
      [] OTHER -> {}

\* random.choice(choices), dflow.py:673, raises: IndexError on an empty list,
\* UnboundLocalError on the unbound name.
ChoiceRaises(executors) == choices(executors) = {}

\* submit, dflow.py:667-737, up to the loop that installs the callbacks.  A
\* call that raises at random.choice has taken its task id and nothing else.
submit_func(func_name, shape, cache, executors) ==
    /\ threads[UserThread] = <<>>
    /\ UNCHANGED <<cleanup_called, calls, checkpoint_lock, tasks_pkl,
                   strategy, dfk_executors, now, last_tick, _dfk, loader_calls>>
    /\ task_count < MaxTasks
    /\ (task_count + 1) * AttemptsPerTask <= MaxAttempts
    /\ Len(shape) <= task_count
    /\ task_count' = task_count + 1
    /\ IF ChoiceRaises(executors)
       THEN UNCHANGED <<tasks, app_fus, hist, threads>>
       ELSE \E executor \in choices(executors) :
            LET task_id == task_count
                args == ArgsOf(shape, "arg", task_id)
                kwargs == ArgsOf(shape, "kwarg", task_id)
                inputs == ArgsOf(shape, "inputs", task_id)
                depends == _gather_all_deps(args, kwargs, inputs)
                task_def == [depends |-> depends,
                             executor |-> executor,
                             func_name |-> func_name,
                             args |-> args,
                             kwargs |-> kwargs,
                             inputs |-> inputs,
                             memoize |-> cache,
                             exec_fu |-> NoFu,
                             checkpoint |-> FALSE,
                             fail_count |-> 0,
                             fail_history |-> <<>>,
                             status |-> "pending",
                             hashsum |-> NoHash,
                             task_launch_lock |-> NoThread]
            IN  /\ task_id \notin DOMAIN tasks
                /\ \A i \in DOMAIN depends : depends[i] \in DOMAIN tasks
                /\ tasks' = (task_id :> task_def) @@ tasks
                /\ app_fus' = (task_id :>
                       [state |-> "pending", result |-> NoResult,
                        exception |-> NoExc,
                        cbs |-> <<Frame("hau", task_id, NoFu, <<>>)>>]) @@ app_fus
                /\ hist' = (task_id :>
                       [NoHist EXCEPT !.executors = <<executors>>]) @@ hist
                /\ threads' = [threads EXCEPT ![UserThread] =
                       [i \in 1..Len(depends) |->
                           Frame("addcb", task_id, depends[i], <<>>)]
                       \o <<Frame("lir", task_id, NoFu, <<>>)>>]
    /\ UNCHANGED <<config, futs, memo>>

\* submit of the app f, which writes no file.
submit(shape, cache, executors) == submit_func("f", shape, cache, executors)

\* d.add_done_callback(callback_adapter), dflow.py:738-746: on a future that
\* is done the callback runs at once, in the calling thread.
add_done_callback(th) ==
    /\ Running(th) /\ Top(th).op = "addcb"
    /\ UNCHANGED <<cleanup_called, calls, checkpoint_lock, tasks_pkl,
                   strategy, dfk_executors, now, last_tick, _dfk, loader_calls>>
    /\ LET t == Top(th).t
           d == Top(th).f
           cb == Frame("lir", t, NoFu, <<>>)
       IN  IF Done(d)
           THEN /\ threads' = Continue(th, <<cb>>)
                /\ UNCHANGED app_fus
           ELSE /\ app_fus' = [app_fus EXCEPT ![d].cbs = Append(@, cb)]
                /\ threads' = Continue(th, <<>>)
    /\ UNCHANGED <<config, task_count, tasks, futs, memo, hist>>

\* ------------------------------------------------------- launch_if_ready
\* launch_if_ready, dflow.py:399-407: count the unresolved dependencies; with
\* none left, sanitize_and_wrap the arguments, store them, and branch on the
\* dependency errors it collected.
launch_if_ready(th) ==
    /\ Running(th) /\ Top(th).op = "lir"
    /\ UNCHANGED <<cleanup_called, calls, checkpoint_lock, tasks_pkl,
                   strategy, dfk_executors, now, last_tick, _dfk, loader_calls>>
    /\ LET t == Top(th).t
           sw == sanitize_and_wrap(tasks[t].args, tasks[t].kwargs, tasks[t].inputs)
       IN  IF _count_deps(tasks[t].depends) = 0
           THEN /\ tasks' = [tasks EXCEPT ![t] =
                       [@ EXCEPT !.args = sw.args, !.kwargs = sw.kwargs,
                                 !.inputs = sw.inputs]]
                /\ threads' = Continue(th,
                       IF sw.exceptions = <<>>
                       THEN <<Frame("launch", t, NoFu, <<>>)>>
                       ELSE <<Frame("depfail", t, NoFu, sw.exceptions)>>)
           ELSE /\ threads' = Continue(th, <<>>)
                /\ UNCHANGED tasks
    /\ UNCHANGED <<config, task_count, app_fus, futs, memo, hist>>

\* A launch that does not retest the status under the lock.
MayLaunchUnchecked(t) == TRUE

\* The test under the lock, dflow.py:412.
MayLaunch(t) == tasks[t].status = "pending"

\* hit, dflow.py:471-472: check_memo found the task's fingerprint.
hit(task) == check_memo_hit(task)

\* The executor of an attempt picked from the kernel's executors, whatever
\* the task record says.
executor_any(task) == CHOOSE e \in config.executors : e # task.executor

\* executor_label, dflow.py:484-486: the label the task record holds.
executor_of(task) == task.executor

\* launch_if_ready, dflow.py:411-414, and launch_task, dflow.py:469-498: take
\* the task's launch lock (waiting while another holder has it), retest the
\* status, and launch: a memo hit is completed by the two handlers, a miss is
\* submitted to the executor.  When the test fails the lock is released at
\* once and exec_fu stays None.
launch_task(th) ==
    /\ Running(th) /\ Top(th).op = "launch"
    /\ UNCHANGED <<cleanup_called, calls, checkpoint_lock, tasks_pkl,
                   strategy, dfk_executors, now, last_tick, _dfk, loader_calls>>
    /\ LET t == Top(th).t
           task == tasks[t]
           f == FutId(t, hist[t].submits + 1)
           memo_fu == memo[make_hash(task)]
           executor == executor_of(task)
       IN  /\ task.task_launch_lock = NoThread
           /\ IF ~MayLaunch(t)
              THEN /\ threads' = Continue(th, <<>>)
                   /\ UNCHANGED <<tasks, futs, hist>>
              ELSE IF hit(task)
              THEN /\ tasks' = [tasks EXCEPT ![t] =
                          [@ EXCEPT !.task_launch_lock = th,
                                    !.hashsum = check_memo_hashsum(task)]]
                   /\ hist' = [hist EXCEPT ![t] =
                          [@ EXCEPT !.launches = @ + 1, !.cached = <<memo_fu>>]]
                   /\ threads' = Continue(th,
                          <<Frame("heu", t, MemoFu, <<memo_fu>>),
                            Frame("hau", t, MemoFu, <<memo_fu>>),
                            Frame("unlock", t, MemoFu, <<memo_fu>>)>>)
                   /\ UNCHANGED futs
              ELSE /\ tasks' = [tasks EXCEPT ![t] =
                          [@ EXCEPT !.task_launch_lock = th,
                                    !.hashsum = check_memo_hashsum(task)]]
                   /\ hist' = [hist EXCEPT ![t] =
                          [@ EXCEPT !.launches = @ + 1, !.submits = @ + 1,
                                    !.since_pending = @ + 1]]
                   /\ futs' = (f :> [tid |-> t, state |-> "running",
                                      executor |-> executor,
                                      retries_left |-> 0, cbs |-> <<>>]) @@ futs
                   /\ threads' = (f :> <<>>) @@
                          Continue(th, <<Frame("launched", t, f, <<>>)>>)
    /\ UNCHANGED <<config, task_count, app_fus, memo>>

\* launch_task, dflow.py:499-511: the status becomes launched, the future
\* gets retries_left, and handle_exec_update is installed on it; on a future
\* that is already done it runs at once, inside the launch lock.
set_launched(th) ==
    /\ Running(th) /\ Top(th).op = "launched"
    /\ UNCHANGED <<cleanup_called, calls, checkpoint_lock, tasks_pkl,
                   strategy, dfk_executors, now, last_tick, _dfk, loader_calls>>
    /\ LET t == Top(th).t
           f == Top(th).f
           cb == Frame("heu", t, f, <<>>)
           after == Frame("unlock", t, f, <<>>)
           left == config.retries - tasks[t].fail_count
       IN  /\ tasks' = [tasks EXCEPT ![t].status = "launched"]
           /\ IF futs[f].state = "running"
              THEN /\ futs' = [futs EXCEPT ![f] =
                          [@ EXCEPT !.retries_left = left, !.cbs = Append(@, cb)]]
                   /\ threads' = Continue(th, <<after>>)
              ELSE /\ futs' = [futs EXCEPT ![f].retries_left = left]
                   /\ threads' = Continue(th, <<cb, after>>)
    /\ UNCHANGED <<config, task_count, app_fus, memo, hist>>

\* launch_if_ready, dflow.py:414-424: leave the lock, record exec_fu and
\* update_parent: install parent_callback on the future (run at once when the
\* future is done, as a memo future always is).
update_parent(th) ==
    /\ Running(th) /\ Top(th).op = "unlock"
    /\ UNCHANGED <<cleanup_called, calls, checkpoint_lock, tasks_pkl,
                   strategy, dfk_executors, now, last_tick, _dfk, loader_calls>>
    /\ LET t == Top(th).t
           f == Top(th).f
           cb == Frame("pcb", t, f, Top(th).x)
       IN  /\ tasks' = [tasks EXCEPT ![t] =
                  [@ EXCEPT !.task_launch_lock = NoThread, !.exec_fu = f]]
           /\ IF f # MemoFu /\ futs[f].state = "running"
              THEN /\ futs' = [futs EXCEPT ![f].cbs = Append(@, cb)]
                   /\ threads' = Continue(th, <<>>)
              ELSE /\ threads' = Continue(th, <<cb>>)
                   /\ UNCHANGED futs
    /\ UNCHANGED <<config, task_count, app_fus, memo, hist>>

\* parent_callback of an executor future or of a memo future.  A memo future
\* has no retries_left: reading it on the error path raises, which the
\* callback machinery logs, and the AppFuture is left unset.
run_parent_callback(th) ==
    /\ Running(th) /\ Top(th).op = "pcb"
    /\ UNCHANGED <<cleanup_called, calls, checkpoint_lock, tasks_pkl,
                   strategy, dfk_executors, now, last_tick, _dfk, loader_calls>>
    /\ LET t == Top(th).t
           f == Top(th).f
           fut == View(Top(th))
       IN  IF f = MemoFu
           THEN IF fut.state = "err"
                THEN /\ threads' = Continue(th, <<>>)
                     /\ UNCHANGED app_fus
                ELSE parent_callback(th, t, fut, 0)
           ELSE parent_callback(th, t, fut, futs[f].retries_left)
    /\ UNCHANGED <<config, task_count, tasks, futs, memo, hist>>

\* launch_if_ready, dflow.py:426-432: the dependency-failure branch sets the
\* status.
set_dep_fail(th) ==
    /\ Running(th) /\ Top(th).op = "depfail"
    /\ UNCHANGED <<cleanup_called, calls, checkpoint_lock, tasks_pkl,
                   strategy, dfk_executors, now, last_tick, _dfk, loader_calls>>
    /\ LET t == Top(th).t
       IN  /\ tasks' = [tasks EXCEPT ![t].status = "dep_fail"]
           /\ threads' = Continue(th, <<Frame("depfail_fu", t, DepFailFu, Top(th).x)>>)
    /\ UNCHANGED <<config, task_count, app_fus, futs, memo, hist>>

\* launch_if_ready, dflow.py:434-441: a new future with retries_left = 0
\* becomes exec_fu and the AppFuture's parent, and is failed with the
\* DependencyError, which its parent_callback publishes.
fail_dependent(th) ==
    /\ Running(th) /\ Top(th).op = "depfail_fu"
    /\ UNCHANGED <<cleanup_called, calls, checkpoint_lock, tasks_pkl,
                   strategy, dfk_executors, now, last_tick, _dfk, loader_calls>>
    /\ LET t == Top(th).t
           fu == Completed("err", NoResult, DependencyError(Top(th).x, t))
       IN  /\ tasks' = [tasks EXCEPT ![t].exec_fu = DepFailFu]
           /\ parent_callback(th, t, fu, 0)
    /\ UNCHANGED <<config, task_count, futs, memo, hist>>

\* ---------------------------------------------------- completion handlers
\* A retry test that grants one retry too many.
MayRetryOffByOne(fail_count) == fail_count <= config.retries + 1

\* The retry test, dflow.py:310.
MayRetry(fail_count) == fail_count <= config.retries

\* A failed attempt that is always retried under lazy_errors.
StatusAfterFailureAlwaysRetry(fail_count) ==
    IF ~config.lazy_errors THEN "failed" ELSE "pending"

\* The status a failed attempt leaves, dflow.py:302-317.
StatusAfterFailure(fail_count) ==
    IF ~config.lazy_errors THEN "failed"
    ELSE IF MayRetry(fail_count) THEN "pending"
    ELSE "failed"

\* future._exception, dflow.py:299: the exception the future was failed
\* with; a future completed with a RemoteExceptionWrapper has none.
_exception(fr) ==
    IF fr.f # MemoFu /\ futs[fr.f].state = "wrapped" THEN NoExc
    ELSE View(fr).exception

\* handle_exec_update, dflow.py:289-337: the outcome of the attempt is applied
\* to the task record; an eager failure returns at once (dflow.py:308), and on
\* every other path a task that went back to pending is considered for
\* relaunch (dflow.py:334).
handle_exec_update(th) ==
    /\ Running(th) /\ Top(th).op = "heu"
    /\ UNCHANGED <<cleanup_called, calls, checkpoint_lock, tasks_pkl,
                   strategy, dfk_executors, now, last_tick, _dfk, loader_calls>>
    /\ LET t == Top(th).t
           fut == View(Top(th))
           n == tasks[t].fail_count + 1
           st == StatusAfterFailure(n)
       IN  IF fut.state = "err"
           THEN /\ tasks' = [tasks EXCEPT ![t] =
                       [@ EXCEPT !.fail_history = Append(@, _exception(Top(th))),
                                 !.fail_count = n,
                                 !.status = st]]
                /\ hist' = [hist EXCEPT ![t].since_pending =
                       IF st = "pending" THEN 0 ELSE @]
                /\ threads' = Continue(th,
                       IF st = "pending"
                       THEN <<Frame("lir", t, NoFu, <<>>)>>
                       ELSE <<>>)
           ELSE /\ tasks' = [tasks EXCEPT ![t].status = "done"]
                /\ threads' = Continue(th, <<>>)
                /\ UNCHANGED hist
    /\ UNCHANGED <<config, task_count, app_fus, futs, memo>>

\* The apps whose tasks are never staged out, dflow.py:375-377.
StageInApps == {"_file_stage_in", "_ftp_stage_in", "_http_stage_in"}

\* app_fu.outputs: the files an app writes, each remote or local. The app g
\* and the stage-in apps write a remote file and a local one; f writes none.
OutputsOf(func_name) ==
    IF func_name = "f" THEN <<>> ELSE <<"remote", "local">>

\* A test that lets every finished task stage out.
StageOutAlways(task, app_fu) == app_fu.state # "pending"

\* The test before the stage-out loop, dflow.py:370-377.
StageOutDue(task, app_fu) ==
    /\ app_fu.state # "pending"
    /\ app_fu.exception = NoExc
    /\ task.executor # "data_manager"
    /\ task.func_name \notin StageInApps

\* The calls f.stage_out(executor) of handle_app_update, dflow.py:378-381:
\* one for each output that is a remote file, on the task's executor.
stage_out(task, app_fu) ==
    IF StageOutDue(task, app_fu)
    THEN LET outputs == OutputsOf(task.func_name)
             remote == SelectSeq([i \in DOMAIN outputs |-> i],
                                 LAMBDA i : outputs[i] = "remote")
         IN  [j \in DOMAIN remote |->
                 [file |-> remote[j], executor |-> task.executor]]
    ELSE <<>>

\* handle_app_update, dflow.py:356-382: unless the call comes from a memo hit
\* (memo_cbk), the memoizer is updated with the task's AppFuture; the history
\* counts these calls of update_memo.  In checkpoint mode task_exit the
\* handler goes on to checkpoint(tasks=[task_id]).  The remote outputs of a
\* task that succeeded are staged out; the history keeps the calls.
handle_app_update(th) ==
    /\ Running(th) /\ Top(th).op = "hau"
    /\ UNCHANGED <<cleanup_called, calls, checkpoint_lock, tasks_pkl,
                   strategy, dfk_executors, now, last_tick, _dfk, loader_calls>>
    /\ LET t == Top(th).t
           memo_cbk == Top(th).f = MemoFu
           app_fu == Completed(app_fus[t].state, app_fus[t].result,
                               app_fus[t].exception)
       IN  /\ memo' = IF memo_cbk THEN memo ELSE update_memo(tasks[t], app_fu)
           /\ hist' = [hist EXCEPT
                  ![t].updates = IF memo_cbk THEN @ ELSE @ + 1,
                  ![t].stage_outs = @ \o stage_out(tasks[t], app_fu)]
           /\ threads' = Continue(th,
                  IF ~memo_cbk /\ config.checkpoint_mode = "task_exit"
                  THEN <<Frame("ckpt", t, NoFu, <<t>>)>>
                  ELSE <<>>)
    /\ UNCHANGED <<config, task_count, tasks, app_fus, futs>>

\* ------------------------------------------------------------- executor
\* The executor finishes the attempt behind future f, with a result or with
\* an exception; the completing thread then runs the installed callbacks.
Outcomes == {"ok", "err"}

\* The outcomes of an attempt on a remote executor: the future can also
\* complete with a RemoteExceptionWrapper as its result.
RemoteOutcomes == {"ok", "err", "wrapped"}

exec_complete(f, outcome) ==
    /\ futs[f].state = "running"
    /\ UNCHANGED <<cleanup_called, calls, checkpoint_lock, tasks_pkl,
                   strategy, dfk_executors, now, last_tick, _dfk, loader_calls>>
    /\ futs' = [futs EXCEPT ![f].state = outcome]
    /\ threads' = [threads EXCEPT ![f] = futs[f].cbs]
    /\ UNCHANGED <<config, task_count, tasks, app_fus, memo, hist>>

\* ---------------------------------------------------------- specification
Next ==
    \/ \E shape \in DepShapes, cache \in CacheChoices :
           submit(shape, cache, AllExecutors)
    \/ \E th \in Threads : add_done_callback(th)
    \/ \E th \in Threads : launch_if_ready(th)
    \/ \E th \in Threads : launch_task(th)
    \/ \E th \in Threads : set_launched(th)
    \/ \E th \in Threads : update_parent(th)
    \/ \E th \in Threads : run_parent_callback(th)
    \/ \E th \in Threads : set_dep_fail(th)
    \/ \E th \in Threads : fail_dependent(th)
    \/ \E th \in Threads : handle_exec_update(th)
    \/ \E th \in Threads : handle_app_update(th)
    \/ \E f \in DOMAIN futs, outcome \in Outcomes : exec_complete(f, outcome)

Spec == Init /\ [][Next]_vars

\* ============================================== the kernel's entry points
\* submit and cleanup as several threads call them (Spec has the user thread
\* alone call submit, and no cleanup: cleanup_called and calls stay as
\* they start there).  The statements of
\* submit that allocate the task id and register the record, and those of
\* cleanup that test and set cleanup_called, take no lock: each read and each
\* write of shared state is a step of its own, and the calling thread can be
\* preempted between any two.  What happens to a registered task afterwards
\* is the subject of Spec; here a task is its record and its AppFuture.
Callers == 0..(NumCallers - 1)

\* The executors arguments of the calls: 'all', a list of one label, an empty
\* list, and a value that is neither.
ExecutorsArgs == {AllExecutors, ListOf(<<"threads">>), ListOf(<<>>), NotAList}

\* The function each thread submits: the name tells the records apart.
FuncOf(th) == IF th = UserThread THEN "f" ELSE "g"

\* task_def, dflow.py:678-696, of a call without dependencies.
task_def(func_name, executor) ==
    [depends |-> <<>>, executor |-> executor, func_name |-> func_name,
     args |-> <<>>,
     kwargs |-> <<>>, inputs |-> <<>>, memoize |-> FALSE, exec_fu |-> NoFu,
     checkpoint |-> FALSE,
     fail_count |-> 0, fail_history |-> <<>>, status |-> "unsched",
     hashsum |-> NoHash, task_launch_lock |-> NoThread]

\* A thread enters the kernel while another is inside it.
Overlaps(th) == \E o \in Callers \ {th} : threads[o] # <<>>

InitCalls ==
    /\ config = [retries |-> 0, lazy_errors |-> TRUE, app_cache |-> FALSE,
                 executors |-> {"threads", "data_manager"},
                 checkpoint_mode |-> "none"]
    /\ task_count = 0
    /\ tasks = <<>>
    /\ app_fus = <<>>
    /\ futs = <<>>
    /\ memo = <<>>
    /\ threads = [th \in Callers |-> <<>>]
    /\ hist = <<>>
    /\ cleanup_called = FALSE
    /\ calls = NoCalls
    /\ checkpoint_lock = NoThread
    /\ tasks_pkl = <<>>
    /\ NoStrategy
    /\ _dfk = None
    /\ loader_calls = <<>>

\* A thread calls submit(func, executors=...).
call_submit(th, executors) ==
    /\ threads[th] = <<>>
    /\ UNCHANGED <<checkpoint_lock, tasks_pkl,
                   strategy, dfk_executors, now, last_tick, _dfk, loader_calls>>
    /\ calls.submit < MaxTasks
    /\ threads' = [threads EXCEPT ![th] =
           <<Frame("task_id", 0, NoFu, <<executors>>)>>]
    /\ calls' = [calls EXCEPT !.submit = @ + 1,
                              !.concurrent = @ \/ Overlaps(th)]
    /\ UNCHANGED <<config, task_count, tasks, app_fus, futs, memo, hist,
                   cleanup_called>>

\* task_id = self.task_count, dflow.py:667.
read_task_count(th) ==
    /\ Running(th) /\ Top(th).op = "task_id"
    /\ UNCHANGED <<checkpoint_lock, tasks_pkl,
                   strategy, dfk_executors, now, last_tick, _dfk, loader_calls>>
    /\ threads' = Continue(th, <<Frame("load", task_count, NoFu, Top(th).x)>>)
    /\ UNCHANGED <<config, task_count, tasks, app_fus, futs, memo, hist,
                   cleanup_called, calls>>

\* self.task_count += 1, dflow.py:668: the read of the attribute ...
load_task_count(th) ==
    /\ Running(th) /\ Top(th).op = "load"
    /\ UNCHANGED <<checkpoint_lock, tasks_pkl,
                   strategy, dfk_executors, now, last_tick, _dfk, loader_calls>>
    /\ threads' = Continue(th,
           <<Frame("store", Top(th).t, NoFu, Top(th).x \o <<task_count>>)>>)
    /\ UNCHANGED <<config, task_count, tasks, app_fus, futs, memo, hist,
                   cleanup_called, calls>>

\* ... and the write of the value read plus one.
store_task_count(th) ==
    /\ Running(th) /\ Top(th).op = "store"
    /\ UNCHANGED <<checkpoint_lock, tasks_pkl,
                   strategy, dfk_executors, now, last_tick, _dfk, loader_calls>>
    /\ task_count' = Top(th).x[2] + 1
    /\ threads' = Continue(th,
           <<Frame("choose", Top(th).t, NoFu, <<Top(th).x[1]>>)>>)
    /\ UNCHANGED <<config, tasks, app_fus, futs, memo, hist, cleanup_called,
                   calls>>

\* dflow.py:669-673: pick the executor; the exception of random.choice ends
\* the call.
choose_executor(th) ==
    /\ Running(th) /\ Top(th).op = "choose"
    /\ UNCHANGED <<checkpoint_lock, tasks_pkl,
                   strategy, dfk_executors, now, last_tick, _dfk, loader_calls>>
    /\ IF ChoiceRaises(Top(th).x[1])
       THEN /\ threads' = Continue(th, <<>>)
            /\ calls' = [calls EXCEPT !.raised = @ + 1]
       ELSE /\ \E executor \in choices(Top(th).x[1]) :
                   threads' = Continue(th,
                       <<Frame("check", Top(th).t, NoFu, <<executor>>)>>)
            /\ UNCHANGED calls
    /\ UNCHANGED <<config, task_count, tasks, app_fus, futs, memo, hist,
                   cleanup_called>>

\* if task_id in self.tasks: raise DuplicateTaskError, dflow.py:698-700.
check_duplicate(th) ==
    /\ Running(th) /\ Top(th).op = "check"
    /\ UNCHANGED <<checkpoint_lock, tasks_pkl,
                   strategy, dfk_executors, now, last_tick, _dfk, loader_calls>>
    /\ IF Top(th).t \in DOMAIN tasks
       THEN /\ threads' = Continue(th, <<>>)
            /\ calls' = [calls EXCEPT !.raised = @ + 1]
       ELSE /\ threads' = Continue(th,
                   <<Frame("register", Top(th).t, NoFu, Top(th).x)>>)
            /\ UNCHANGED calls
    /\ UNCHANGED <<config, task_count, tasks, app_fus, futs, memo, hist,
                   cleanup_called>>

\* self.tasks[task_id] = task_def, dflow.py:702.
register_task(th) ==
    /\ Running(th) /\ Top(th).op = "register"
    /\ UNCHANGED <<checkpoint_lock, tasks_pkl,
                   strategy, dfk_executors, now, last_tick, _dfk, loader_calls>>
    /\ LET task_id == Top(th).t
       IN  tasks' = (task_id :> task_def(FuncOf(th), Top(th).x[1])) @@ tasks
    /\ threads' = Continue(th, <<Frame("app_fu", Top(th).t, NoFu, <<>>)>>)
    /\ UNCHANGED <<config, task_count, app_fus, futs, memo, hist,
                   cleanup_called, calls>>

\* dflow.py:716-723: the AppFuture of the task, and its status pending; the
\* call returns the AppFuture.
create_app_fu(th) ==
    /\ Running(th) /\ Top(th).op = "app_fu"
    /\ UNCHANGED <<checkpoint_lock, tasks_pkl,
                   strategy, dfk_executors, now, last_tick, _dfk, loader_calls>>
    /\ LET task_id == Top(th).t
       IN  /\ app_fus' = (task_id :>
                  [state |-> "pending", result |-> NoResult,
                   exception |-> NoExc, cbs |-> <<>>]) @@ app_fus
           /\ tasks' = [tasks EXCEPT ![task_id].status = "pending"]
    /\ threads' = Continue(th, <<>>)
    /\ UNCHANGED <<config, task_count, futs, memo, hist, cleanup_called,
                   calls>>

\* The task runs and its AppFuture completes (update_parent, dflow.py:416-420;
\* Spec follows the steps in between).
task_completes(t) ==
    /\ t \in DOMAIN app_fus
    /\ UNCHANGED <<checkpoint_lock, tasks_pkl,
                   strategy, dfk_executors, now, last_tick, _dfk, loader_calls>>
    /\ app_fus[t].state = "pending"
    /\ tasks[t].status = "pending"
    /\ app_fus' = [app_fus EXCEPT ![t] =
           [@ EXCEPT !.state = "ok", !.result = AppResult(t)]]
    /\ tasks' = [tasks EXCEPT ![t].status = "done"]
    /\ UNCHANGED <<config, task_count, futs, memo, threads, hist,
                   cleanup_called, calls>>

\* The tasks a call of cleanup finds submitted and not yet completed.
Unfinished == {t \in DOMAIN app_fus : ~Done(t)}

\* A thread calls cleanup(), dflow.py:820; the frame remembers the tasks
\* that were unfinished at the call.
call_cleanup(th) ==
    /\ threads[th] = <<>>
    /\ UNCHANGED <<checkpoint_lock, tasks_pkl,
                   strategy, dfk_executors, now, last_tick, _dfk, loader_calls>>
    /\ calls.cleanup < MaxCleanups
    /\ threads' = [threads EXCEPT ![th] =
           <<Frame("cleanup", 0, NoFu, <<Unfinished>>)>>]
    /\ calls' = [calls EXCEPT !.cleanup = @ + 1,
                              !.concurrent = @ \/ Overlaps(th)]
    /\ UNCHANGED <<config, task_count, tasks, app_fus, futs, memo, hist,
                   cleanup_called>>

\* The exit hook registered at dflow.py:217 runs, once: atexit_cleanup,
\* dflow.py:800-802, calls cleanup unless cleanup_called is set.
atexit_cleanup(th) ==
    /\ threads[th] = <<>>
    /\ UNCHANGED <<checkpoint_lock, tasks_pkl,
                   strategy, dfk_executors, now, last_tick, _dfk, loader_calls>>
    /\ calls.atexit = 0
    /\ threads' = [threads EXCEPT ![th] =
           IF cleanup_called THEN <<>>
           ELSE <<Frame("cleanup", 0, NoFu, <<Unfinished>>)>>]
    /\ calls' = [calls EXCEPT !.atexit = 1,
                              !.concurrent = @ \/ Overlaps(th)]
    /\ UNCHANGED <<config, task_count, tasks, app_fus, futs, memo, hist,
                   cleanup_called>>

\* if self.cleanup_called: raise Exception, dflow.py:831-832.
check_cleanup_called(th) ==
    /\ Running(th) /\ Top(th).op = "cleanup"
    /\ UNCHANGED <<checkpoint_lock, tasks_pkl,
                   strategy, dfk_executors, now, last_tick, _dfk, loader_calls>>
    /\ threads' = Continue(th,
           IF cleanup_called THEN <<>>
           ELSE <<Frame("set_called", 0, NoFu, Top(th).x)>>)
    /\ UNCHANGED <<config, task_count, tasks, app_fus, futs, memo, hist,
                   cleanup_called, calls>>

\* self.cleanup_called = True, dflow.py:833.
set_cleanup_called(th) ==
    /\ Running(th) /\ Top(th).op = "set_called"
    /\ UNCHANGED <<checkpoint_lock, tasks_pkl,
                   strategy, dfk_executors, now, last_tick, _dfk, loader_calls>>
    /\ cleanup_called' = TRUE
    /\ threads' = Continue(th, <<Frame("shutdown", 0, NoFu, Top(th).x)>>)
    /\ UNCHANGED <<config, task_count, tasks, app_fus, futs, memo, hist,
                   calls>>

\* dflow.py:835-885: log the task states, checkpoint, close the flow control
\* and shut the managed executors down; cleanup returns.
shutdown(th) ==
    /\ Running(th) /\ Top(th).op = "shutdown"
    /\ UNCHANGED <<checkpoint_lock, tasks_pkl,
                   strategy, dfk_executors, now, last_tick, _dfk, loader_calls>>
    /\ calls' = [calls EXCEPT !.shutdown = @ + 1]
    /\ threads' = Continue(th, <<>>)
    /\ UNCHANGED <<config, task_count, tasks, app_fus, futs, memo, hist,
                   cleanup_called>>

NextCalls ==
    \/ \E th \in Callers, executors \in ExecutorsArgs : call_submit(th, executors)
    \/ \E th \in Callers : read_task_count(th)
    \/ \E th \in Callers : load_task_count(th)
    \/ \E th \in Callers : store_task_count(th)
    \/ \E th \in Callers : choose_executor(th)
    \/ \E th \in Callers : check_duplicate(th)
    \/ \E th \in Callers : register_task(th)
    \/ \E th \in Callers : create_app_fu(th)
    \/ \E t \in DOMAIN app_fus : task_completes(t)
    \/ \E th \in Callers : call_cleanup(th)
    \/ \E th \in Callers : atexit_cleanup(th)
    \/ \E th \in Callers : check_cleanup_called(th)
    \/ \E th \in Callers : set_cleanup_called(th)
    \/ \E th \in Callers : shutdown(th)

SpecCalls == InitCalls /\ [][NextCalls]_vars

\* ================================================== the executor of a task
\* Independent tasks submitted with every kind of executors argument to a
\* kernel of two executors and the staging executor, with retries.
ExecutorLists ==
    {AllExecutors, ListOf(<<"htex">>), ListOf(<<"data_manager">>),
     ListOf(<<"threads", "data_manager">>), ListOf(<<>>)}

InitExecutors ==
    /\ config = [retries |-> MaxRetries, lazy_errors |-> TRUE,
                 app_cache |-> FALSE,
                 executors |-> {"threads", "htex", "data_manager"},
                 checkpoint_mode |-> "none"]
    /\ task_count = 0
    /\ tasks = <<>>
    /\ app_fus = <<>>
    /\ futs = <<>>
    /\ memo = <<>>
    /\ threads = (UserThread :> <<>>)
    /\ hist = <<>>
    /\ cleanup_called = FALSE
    /\ calls = NoCalls
    /\ checkpoint_lock = NoThread
    /\ tasks_pkl = <<>>
    /\ NoStrategy
    /\ _dfk = None
    /\ loader_calls = <<>>

NextExecutors ==
    \/ \E executors \in ExecutorLists : submit(<<>>, FALSE, executors)
    \/ \E th \in Threads : launch_if_ready(th)
    \/ \E th \in Threads : launch_task(th)
    \/ \E th \in Threads : set_launched(th)
    \/ \E th \in Threads : update_parent(th)
    \/ \E th \in Threads : run_parent_callback(th)
    \/ \E th \in Threads : handle_exec_update(th)
    \/ \E th \in Threads : handle_app_update(th)
    \/ \E f \in DOMAIN futs, outcome \in Outcomes : exec_complete(f, outcome)

SpecExecutors == InitExecutors /\ [][NextExecutors]_vars

\* ====================================================== remote executors
\* Independent tasks of apps with and without output files, submitted to a
\* remote executor or to the staging executor of a kernel that caches and
\* may retry; an attempt can also end with a wrapped remote exception.
MaxRemoteAttempts == 2

RemoteApps == {"g"} \cup StageInApps

InitRemote ==
    /\ config \in [retries : 0..MaxRetries, lazy_errors : {TRUE},
                   app_cache : {TRUE},
                   executors : {{"htex", "data_manager"}},
                   checkpoint_mode : {"none"}]
    /\ task_count = 0
    /\ tasks = <<>>
    /\ app_fus = <<>>
    /\ futs = <<>>
    /\ memo = <<>>
    /\ threads = (UserThread :> <<>>)
    /\ hist = <<>>
    /\ cleanup_called = FALSE
    /\ calls = NoCalls
    /\ checkpoint_lock = NoThread
    /\ tasks_pkl = <<>>
    /\ NoStrategy
    /\ _dfk = None
    /\ loader_calls = <<>>

NextRemote ==
    \/ \E func_name \in RemoteApps,
          executors \in {AllExecutors, ListOf(<<"data_manager">>)} :
           /\ (task_count + 1) * AttemptsPerTask <= MaxRemoteAttempts
           /\ submit_func(func_name, <<>>, TRUE, executors)
    \/ \E th \in Threads : launch_if_ready(th)
    \/ \E th \in Threads : launch_task(th)
    \/ \E th \in Threads : set_launched(th)
    \/ \E th \in Threads : update_parent(th)
    \/ \E th \in Threads : run_parent_callback(th)
    \/ \E th \in Threads : handle_exec_update(th)
    \/ \E th \in Threads : handle_app_update(th)
    \/ \E f \in DOMAIN futs, outcome \in RemoteOutcomes :
           exec_complete(f, outcome)

SpecRemote == InitRemote /\ [][NextRemote]_vars

\* ============================================================ checkpoint
\* checkpoint(tasks), dflow.py:887-968, as the timer thread, the user and
\* handle_app_update call it.  The frame "ckpt" carries the tasks argument
\* (empty for None); inside the lock the frame "ckpt_task" carries the queue
\* left to visit, whether the queue is self.tasks itself, and the size
\* self.tasks had when the iteration began.
Sorted(S) ==
    CHOOSE s \in [1..Cardinality(S) -> S] :
        \A i, j \in 1..Cardinality(S) : i < j => s[i] < s[j]

\* A lock that anyone takes.
LockIgnored(lock) == TRUE

\* threading.Lock: free when no thread holds it.
LockFree(lock) == lock = NoThread

\* The exception of a lookup of a fingerprint the table does not hold.
LookupError == [kind |-> "lookup", tid |-> -1, causes |-> <<>>]

\* memoizer.hash_lookup(hashsum).result(), dflow.py:946: the result of the
\* future the table holds, or the exception the call raises.
hash_lookup(hashsum) ==
    IF hashsum \notin DOMAIN memo THEN Completed("err", NoResult, LookupError)
    ELSE memo[hashsum]

\* t, dflow.py:938-950: the record of a task.
CheckpointRecord(hashsum) ==
    LET r == hash_lookup(hashsum)
    IN  [hash |-> hashsum,
         exception |-> IF r.state = "ok" THEN NoExc ELSE r.exception,
         result |-> IF r.state = "ok" THEN r.result ELSE NoResult]

\* The timer fires, or the user calls checkpoint().
call_checkpoint(th) ==
    /\ th = TimerThread
    /\ threads[th] = <<>>
    /\ calls.checkpoint < MaxCheckpoints
    /\ threads' = [threads EXCEPT ![th] = <<Frame("ckpt", 0, NoFu, <<>>)>>]
    /\ calls' = [calls EXCEPT !.checkpoint = @ + 1]
    /\ UNCHANGED <<config, task_count, tasks, app_fus, futs, memo, hist,
                   cleanup_called, checkpoint_lock, tasks_pkl,
                   strategy, dfk_executors, now, last_tick, _dfk, loader_calls>>

\* with self.checkpoint_lock, dflow.py:905-928: take the lock, choose the
\* queue and open the files.
acquire_checkpoint_lock(th) ==
    /\ Running(th) /\ Top(th).op = "ckpt"
    /\ LockFree(checkpoint_lock)
    /\ checkpoint_lock' = th
    /\ LET whole == Top(th).x = <<>>
           checkpoint_queue == IF whole THEN Sorted(DOMAIN tasks) ELSE Top(th).x
       IN  threads' = Continue(th,
               <<Frame("ckpt_task", 0, NoFu,
                       <<checkpoint_queue, whole, Cardinality(DOMAIN tasks)>>)>>)
    /\ UNCHANGED <<config, task_count, tasks, app_fus, futs, memo, hist,
                   cleanup_called, calls, tasks_pkl,
                   strategy, dfk_executors, now, last_tick, _dfk, loader_calls>>

\* The iteration over self.tasks fails once a submit has added a task.
QueueChanged(fr) == fr.x[2] /\ Cardinality(DOMAIN tasks) # fr.x[3]

\* dflow.py:931-937: the next task of the queue is written when it has not
\* been checkpointed, its AppFuture is done without exception and it has a
\* hashsum.
test_checkpoint(th) ==
    /\ Running(th) /\ Top(th).op = "ckpt_task"
    /\ Top(th).x[1] # <<>> /\ ~QueueChanged(Top(th))
    /\ LET task_id == Head(Top(th).x[1])
           rest == [Top(th).x EXCEPT ![1] = Tail(@)]
       IN  threads' = Continue(th,
               IF /\ ~tasks[task_id].checkpoint
                  /\ Done(task_id)
                  /\ app_fus[task_id].state = "ok"
                  /\ tasks[task_id].hashsum # NoHash
               THEN <<Frame("ckpt_dump", task_id, NoFu, rest)>>
               ELSE <<Frame("ckpt_task", 0, NoFu, rest)>>)
    /\ UNCHANGED <<config, task_count, tasks, app_fus, futs, memo, hist,
                   cleanup_called, calls, checkpoint_lock, tasks_pkl,
                   strategy, dfk_executors, now, last_tick, _dfk, loader_calls>>

\* dflow.py:938-956: build the record, pickle.dump it to the log and mark
\* the task.
dump_checkpoint(th) ==
    /\ Running(th) /\ Top(th).op = "ckpt_dump"
    /\ LET task_id == Top(th).t
       IN  /\ tasks_pkl' =
                  Append(tasks_pkl, CheckpointRecord(tasks[task_id].hashsum))
           /\ tasks' = [tasks EXCEPT ![task_id].checkpoint = TRUE]
           /\ hist' = [hist EXCEPT ![task_id].checkpointed = @ + 1]
    /\ threads' = Continue(th, <<Frame("ckpt_task", 0, NoFu, Top(th).x)>>)
    /\ UNCHANGED <<config, task_count, app_fus, futs, memo, cleanup_called,
                   calls, checkpoint_lock,
                   strategy, dfk_executors, now, last_tick, _dfk, loader_calls>>

\* The end of the with block, dflow.py:958-968: the queue is done, or its
\* iterator raised; the lock is released.
release_checkpoint_lock(th) ==
    /\ Running(th) /\ Top(th).op = "ckpt_task"
    /\ Top(th).x[1] = <<>> \/ QueueChanged(Top(th))
    /\ checkpoint_lock' = NoThread
    /\ threads' = Continue(th, <<>>)
    /\ UNCHANGED <<config, task_count, tasks, app_fus, futs, memo, hist,
                   cleanup_called, calls, tasks_pkl,
                   strategy, dfk_executors, now, last_tick, _dfk, loader_calls>>

\* ------------------------------------------------------- load_checkpoints
\* A final record cut short by a partial write: the cut fell between two
\* opcodes of the pickle, or inside the argument of one.
Truncated(cut) == [cut |-> cut]
IsTruncated(data) == "cut" \in DOMAIN data

\* What loading gives: the table, or BadCheckpoint.
Loaded(table) == [error |-> "none", table |-> table]
BadCheckpoint == [error |-> "BadCheckpoint", table |-> <<>>]

\* memo_fu, dflow.py:995-1000: the future rebuilt from a record.
FutureOf(data) ==
    IF data.exception # NoExc
    THEN Completed("err", NoResult, data.exception)
    ELSE Completed("ok", data.result, NoExc)

\* The loop of _load_checkpoints, dflow.py:991-1016, from record i on.
\* pickle.load raises EOFError at the end of the file and when the stream
\* ends where an opcode is due; it raises UnpicklingError when the stream
\* ends inside an opcode's argument, which the handler at dflow.py:1011 turns
\* into BadCheckpoint.
RECURSIVE LoadFrom(_, _, _)
LoadFrom(file, i, table) ==
    IF i > Len(file) THEN Loaded(table)
    ELSE IF IsTruncated(file[i])
    THEN IF file[i].cut = "opcode" THEN Loaded(table) ELSE BadCheckpoint
    ELSE LoadFrom(file, i + 1,
             (file[i].hash :> FutureOf(file[i])) @@ table)

\* _load_checkpoints(checkpointDirs), dflow.py:970-1020, of one run
\* directory whose tasks.pkl is `file`.
_load_checkpoints(file) == LoadFrom(file, 1, <<>>)

\* A caching kernel that checkpoints at task exit or on a timer, running
\* tasks that opt in to memoization and tasks that do not.
CheckpointShapes == {<<>>, <<"arg">>}

InitCheckpoint ==
    /\ config \in [retries : {0}, lazy_errors : {TRUE}, app_cache : {TRUE},
                    executors : {{"threads", "data_manager"}},
                    checkpoint_mode : {"task_exit", "periodic"}]
    /\ task_count = 0
    /\ tasks = <<>>
    /\ app_fus = <<>>
    /\ futs = <<>>
    /\ memo = <<>>
    /\ threads = (UserThread :> <<>>) @@ (TimerThread :> <<>>)
    /\ hist = <<>>
    /\ cleanup_called = FALSE
    /\ calls = NoCalls
    /\ checkpoint_lock = NoThread
    /\ tasks_pkl = <<>>
    /\ NoStrategy
    /\ _dfk = None
    /\ loader_calls = <<>>

NextCheckpoint ==
    \/ \E shape \in CheckpointShapes, cache \in BOOLEAN :
           task_count < MaxCheckpointTasks /\ submit(shape, cache, AllExecutors)
    \/ \E th \in Threads : add_done_callback(th)
    \/ \E th \in Threads : launch_if_ready(th)
    \/ \E th \in Threads : launch_task(th)
    \/ \E th \in Threads : set_launched(th)
    \/ \E th \in Threads : update_parent(th)
    \/ \E th \in Threads : run_parent_callback(th)
    \/ \E th \in Threads : set_dep_fail(th)
    \/ \E th \in Threads : fail_dependent(th)
    \/ \E th \in Threads : handle_exec_update(th)
    \/ \E th \in Threads : handle_app_update(th)
    \/ \E f \in DOMAIN futs, outcome \in Outcomes : exec_complete(f, outcome)
    \/ \E th \in Threads : call_checkpoint(th)
    \/ \E th \in Threads : acquire_checkpoint_lock(th)
    \/ \E th \in Threads : test_checkpoint(th)
    \/ \E th \in Threads : dump_checkpoint(th)
    \/ \E th \in Threads : release_checkpoint_lock(th)

SpecCheckpoint == InitCheckpoint /\ [][NextCheckpoint]_vars

\* ------------------------------------------------ loading a checkpoint
\* A new kernel loads checkpoint_files (dflow.py:175-176) from a run
\* directory whose tasks.pkl an earlier run left: complete records, and
\* possibly a final record cut short.
RecordHashes == {<<"f", <<>>, <<>>, <<>>>>, <<"g", <<>>, <<>>, <<>>>>}

Records ==
    [hash : RecordHashes, exception : {NoExc}, result : 1..2]
    \cup [hash : RecordHashes, exception : {LookupError}, result : {NoResult}]

RECURSIVE RecordSeqs(_)
RecordSeqs(n) ==
    IF n = 0 THEN {<<>>}
    ELSE RecordSeqs(n - 1)
         \cup {Append(q, d) : q \in RecordSeqs(n - 1), d \in Records}

Files ==
    RecordSeqs(MaxRecords)
    \cup {Append(q, Truncated(cut)) :
             q \in RecordSeqs(MaxRecords), cut \in {"opcode", "argument"}}

\* The checkpointDirs argument: nothing, a value that is not a list, a list
\* of the run directory, a list of a directory without tasks.pkl.
CheckpointDirs == {"none", "notalist", "rundir", "missing"}

\* load_checkpoints, dflow.py:1022-1042, and the file errors of
\* _load_checkpoints, dflow.py:1006-1010.
load_checkpoints_of(checkpointDirs, file) ==
    CASE checkpointDirs = "none" -> Loaded(<<>>)
      [] checkpointDirs = "notalist" -> BadCheckpoint
      [] checkpointDirs = "missing" -> BadCheckpoint
      [] OTHER -> _load_checkpoints(file)

InitLoad ==
    /\ config = [retries |-> 0, lazy_errors |-> TRUE, app_cache |-> TRUE,
                 executors |-> {"threads", "data_manager"},
                 checkpoint_mode |-> "none"]
    /\ task_count = 0
    /\ tasks = <<>>
    /\ app_fus = <<>>
    /\ futs = <<>>
    /\ memo = <<>>
    /\ threads = (UserThread :> <<>>)
    /\ hist = <<>>
    /\ cleanup_called = FALSE
    /\ calls = NoCalls
    /\ checkpoint_lock = NoThread
    /\ tasks_pkl \in Files
    /\ NoStrategy
    /\ _dfk = None
    /\ loader_calls = <<>>

\* The kernel is constructed: the memoizer starts from what load_checkpoints
\* returns; BadCheckpoint leaves no kernel.
load_checkpoints(checkpointDirs) ==
    /\ calls.load = <<>>
    /\ LET loaded == load_checkpoints_of(checkpointDirs, tasks_pkl)
       IN  /\ memo' = loaded.table
           /\ calls' = [calls EXCEPT !.load =
                  <<[dirs |-> checkpointDirs, error |-> loaded.error]>>]
    /\ UNCHANGED <<config, task_count, tasks, app_fus, futs, threads, hist,
                   cleanup_called, checkpoint_lock, tasks_pkl,
                   strategy, dfk_executors, now, last_tick, _dfk, loader_calls>>

NextLoad == \E checkpointDirs \in CheckpointDirs : load_checkpoints(checkpointDirs)

SpecLoad == InitLoad /\ [][NextLoad]_vars

\* ============================================================= the loader
\* DataFlowKernelLoader, dflow.py:1045-1092: class methods on one class
\* attribute, _dfk, called by the program that sets Parsl up. A kernel is
\* named by the position in loader_calls of the load that constructed it;
\* config_arg, the config argument of load, is None or a Config.

MaxLoaderCalls == 5

\* One call of a loader method, as the caller sees it.
LoaderCall(op, config_arg, raised, returned) ==
    [op |-> op, config |-> config_arg, raised |-> raised, returned |-> returned]

\* load always constructs a kernel and makes it the active one.
load_replacing(config_arg) ==
    /\ Len(loader_calls) < MaxLoaderCalls
    /\ _dfk' = Len(loader_calls) + 1
    /\ loader_calls' = Append(loader_calls,
           LoaderCall("load",
                      IF config_arg = "None" THEN "Config()" ELSE config_arg,
                      "", _dfk'))
    /\ UNCHANGED <<config, task_count, tasks, app_fus, futs, memo, threads,
                   hist, cleanup_called, calls, checkpoint_lock, tasks_pkl,
                   strategy, dfk_executors, now, last_tick>>

clear ==
    /\ Len(loader_calls) < MaxLoaderCalls
    /\ _dfk' = None
    /\ loader_calls' = Append(loader_calls, LoaderCall("clear", "", "", None))
    /\ UNCHANGED <<config, task_count, tasks, app_fus, futs, memo, threads,
                   hist, cleanup_called, calls, checkpoint_lock, tasks_pkl,
                   strategy, dfk_executors, now, last_tick>>

\* DataFlowKernel(Config()) for config None, else DataFlowKernel(config).
load(config_arg) ==
    /\ Len(loader_calls) < MaxLoaderCalls
    /\ IF _dfk # None
       THEN /\ loader_calls' = Append(loader_calls,
                   LoaderCall("load", config_arg,
                       "RuntimeError: Config has already been loaded", None))
            /\ UNCHANGED _dfk
       ELSE /\ _dfk' = Len(loader_calls) + 1
            /\ loader_calls' = Append(loader_calls,
                   LoaderCall("load",
                       IF config_arg = "None" THEN "Config()" ELSE config_arg,
                       "", _dfk'))
    /\ UNCHANGED <<config, task_count, tasks, app_fus, futs, memo, threads,
                   hist, cleanup_called, calls, checkpoint_lock, tasks_pkl,
                   strategy, dfk_executors, now, last_tick>>

dfk ==
    /\ Len(loader_calls) < MaxLoaderCalls
    /\ loader_calls' = Append(loader_calls,
           IF _dfk = None
           THEN LoaderCall("dfk", "",
                           "RuntimeError: Must first load config", None)
           ELSE LoaderCall("dfk", "", "", _dfk))
    /\ UNCHANGED <<config, task_count, tasks, app_fus, futs, memo, threads,
                   hist, cleanup_called, calls, checkpoint_lock, tasks_pkl,
                   strategy, dfk_executors, now, last_tick, _dfk>>

InitLoader ==
    /\ config = [retries |-> 0, lazy_errors |-> TRUE, app_cache |-> TRUE,
                 executors |-> {"threads", "data_manager"},
                 checkpoint_mode |-> "none"]
    /\ task_count = 0
    /\ tasks = <<>>
    /\ app_fus = <<>>
    /\ futs = <<>>
    /\ memo = <<>>
    /\ threads = (UserThread :> <<>>)
    /\ hist = <<>>
    /\ cleanup_called = FALSE
    /\ calls = NoCalls
    /\ checkpoint_lock = NoThread
    /\ tasks_pkl = <<>>
    /\ strategy = [strategize |-> "noop", idle_since |-> None]
    /\ dfk_executors = <<>>
    /\ now = 0
    /\ last_tick = NoTick
    /\ _dfk = None
    /\ loader_calls = <<>>

NextLoader ==
    \/ clear
    \/ \E config_arg \in {"None", "config"} : load(config_arg)
    \/ dfk

SpecLoader == InitLoader /\ [][NextLoader]_vars

\* ================================================================= strategy
\* parsl/dataflow/strategy.py: the Strategy object's strategize is called
\* at intervals on one scaling-enabled executor, an IPyParallelExecutor
\* ("ipp") or a HighThroughputExecutor ("htex"). Every block of the provider
\* is running and has one connected manager. The executor's 'workers' is
\* workers_per_node of an IPyParallelExecutor, and max_workers and every
\* manager's worker_count of a HighThroughputExecutor. Times are whole
\* minutes; parallelism is a fraction num/den, whose float is exact.

\* self.max_idletime, in minutes (60 * 2 seconds).
max_idletime == 2

MaxTime == 4
MaxOutstanding == 3
MaxBlocks == 4

Strategies == {"simple", "htex_simple", "htex_aggressive"}

Providers ==
    {provider \in
         [min_blocks : {0, 1}, max_blocks : {0, 2, MaxBlocks},
          parallelism : {[num |-> 0, den |-> 1], [num |-> 1, den |-> 2],
                         [num |-> 1, den |-> 1]},
          nodes_per_block : {1}] :
        provider.min_blocks <= provider.max_blocks}

CeilDiv(a, b) == (a + b - 1) \div b

Minimum(a, b) == IF a <= b THEN a ELSE b

Executors ==
    {[type |-> "ipp", workers |-> 2], [type |-> "htex", workers |-> 1],
     [type |-> "htex", workers |-> 2]}

\* tasks_per_node, strategy.py:187-194, 316-329 and 476-489:
\* _strategy_simple takes 1 for a HighThroughputExecutor.
tasks_per_node(kind, executor) ==
    IF executor.type = "htex" /\ kind = "simple" THEN 1 ELSE executor.workers

\* running + submitting + pending of executor.status(), strategy.py:334-344.
active_blocks(executor) == Cardinality(DOMAIN executor.blocks)

active_slots(kind, executor) ==
    active_blocks(executor) * tasks_per_node(kind, executor)
        * executor.provider.nodes_per_block

\* The calls a strategy makes on the executor.
scale_out_call(n) == [op |-> "scale_out", n |-> n, block_ids |-> {}]
scale_in_call(n, block_ids) == [op |-> "scale_in", n |-> n, block_ids |-> block_ids]

\* excess_blocks of case 2b with no limit put on it.
to_request_unlimited(kind, executor) ==
    LET parallelism == executor.provider.parallelism
        excess == CeilDiv(executor.outstanding * parallelism.num
                              - active_slots(kind, executor) * parallelism.den,
                          parallelism.den)
    IN  CeilDiv(excess, tasks_per_node(kind, executor)
                            * executor.provider.nodes_per_block)

\* to_request of case 2b, strategy.py:263-268, 397-402 and 557-560.
to_request(kind, executor) ==
    LET parallelism == executor.provider.parallelism
        excess == CeilDiv(executor.outstanding * parallelism.num
                              - active_slots(kind, executor) * parallelism.den,
                          parallelism.den)
        excess_blocks == CeilDiv(excess, tasks_per_node(kind, executor)
                                     * executor.provider.nodes_per_block)
    IN  Minimum(executor.provider.max_blocks - active_blocks(executor),
                excess_blocks)

\* Every block of the executor, idle or not.
AllBlocks(executor) == DOMAIN executor.blocks

\* The blocks the loop of _htex_strategy scales in, strategy.py:430-436:
\* those whose managers have no task in flight and are all active.
IdleBlocks(executor) ==
    {b \in DOMAIN executor.blocks :
        executor.blocks[b].tasks = 0 /\ executor.blocks[b].active}

\* One call of scale_in(1, block_ids=[block]) for each block of the set, in
\* the order of the dictionary.
RECURSIVE ScaleInEach(_)
ScaleInEach(blocks) ==
    IF blocks = {} THEN <<>>
    ELSE LET block == CHOOSE b \in blocks : \A c \in blocks : b <= c
         IN  <<scale_in_call(1, {block})>> \o ScaleInEach(blocks \ {block})

\* A request for as many blocks as the provider allows.
stalled_calls_to_max(executor) ==
    <<scale_out_call(executor.provider.max_blocks)>>

\* The stalled case, strategy.py:273-277, 408-412 and 566-570: one block is
\* requested, whatever max_blocks is.
stalled_calls(executor) == <<scale_out_call(1)>>

\* One pass of the loop body of a strategy for the executor at time t:
\* the case taken, the calls made, the new idle_since and whether the
\* pass raised (_strategy_simple 219-282, _htex_strategy 353-442,
\* _htex_strategy_aggressive 514-603).
strategize(kind, executor, idle_since, t) ==
    LET active_tasks == executor.outstanding
        min_blocks == executor.provider.min_blocks
        max_blocks == executor.provider.max_blocks
        parallelism == executor.provider.parallelism
        Pass(case, since, cs, err) ==
            [case |-> case, idle_since |-> since, calls |-> cs,
             raised |-> err]
    IN  IF active_tasks = 0
        THEN IF active_blocks(executor) <= min_blocks
             THEN Pass("1a", idle_since, <<>>, FALSE)
             ELSE LET since == IF idle_since = None THEN t ELSE idle_since
                  IN  IF t - since > max_idletime
                      THEN Pass("1b", since,
                                <<scale_in_call(active_blocks(executor)
                                                    - min_blocks, {})>>,
                                FALSE)
                      ELSE Pass("1b", since, <<>>, FALSE)
        ELSE IF active_slots(kind, executor) * parallelism.den
                    < parallelism.num * active_tasks
        THEN IF active_blocks(executor) >= max_blocks
             THEN Pass("2a", idle_since, <<>>, FALSE)
             ELSE IF kind = "htex_simple" /\ to_request(kind, executor) = 0
                  THEN Pass("2b", idle_since, <<>>, FALSE)
                  ELSE Pass("2b", idle_since,
                            <<scale_out_call(to_request(kind, executor))>>, FALSE)
        ELSE IF active_slots(kind, executor) = 0 /\ active_tasks > 0
        THEN Pass("stalled", idle_since, stalled_calls(executor), FALSE)
        ELSE IF /\ kind # "simple"
                /\ active_slots(kind, executor) > 0
                /\ active_slots(kind, executor) > active_tasks
        THEN IF executor.type # "htex"
             THEN Pass("over", idle_since, <<>>, FALSE)
             ELSE IF kind = "htex_simple"
             THEN Pass("over", idle_since,
                       ScaleInEach(IdleBlocks(executor)), FALSE)
             \* the aggressive variant reads manager['tasks'] of the keys
             \* of its own dictionary: TypeError (strategy.py:582-596)
             ELSE Pass("over", idle_since, <<>>, TRUE)
        ELSE Pass("3", idle_since, <<>>, FALSE)

\* executor.scale_out(n): n more blocks, each with an idle active manager.
scale_out(blocks, n) ==
    LET free == (1..MaxBlocks) \ DOMAIN blocks
        new == {b \in free : Cardinality({c \in free : c < b}) < n}
    IN  [b \in DOMAIN blocks \cup new |->
            IF b \in new THEN [tasks |-> 0, active |-> TRUE] ELSE blocks[b]]

\* The sets of blocks executor.scale_in(n, block_ids) may remove: the
\* blocks named, or any n blocks when none is named.
scale_in(blocks, call) ==
    IF call.block_ids # {}
    THEN {call.block_ids \cap DOMAIN blocks}
    ELSE {S \in SUBSET DOMAIN blocks :
             Cardinality(S) = Minimum(call.n, Cardinality(DOMAIN blocks))}

\* The block tables the executor may have after the calls.
RECURSIVE Scaled(_, _)
Scaled(blocks, cs) ==
    IF cs = <<>> THEN {blocks}
    ELSE LET call == Head(cs)
             after == IF call.op = "scale_out"
                      THEN {scale_out(blocks, call.n)}
                      ELSE {[b \in DOMAIN blocks \ S |-> blocks[b]] :
                                S \in scale_in(blocks, call)}
         IN  UNION {Scaled(bs, Tail(cs)) : bs \in after}

KernelIdle ==
    UNCHANGED <<config, task_count, tasks, app_fus, futs, memo, threads,
                hist, cleanup_called, calls, checkpoint_lock, tasks_pkl,
                _dfk, loader_calls>>

InitStrategy ==
    /\ config = [retries |-> 0, lazy_errors |-> TRUE, app_cache |-> FALSE,
                 executors |-> {"htex", "data_manager"},
                 checkpoint_mode |-> "none"]
    /\ task_count = 0
    /\ tasks = <<>>
    /\ app_fus = <<>>
    /\ futs = <<>>
    /\ memo = <<>>
    /\ threads = (UserThread :> <<>>)
    /\ hist = <<>>
    /\ cleanup_called = FALSE
    /\ calls = NoCalls
    /\ checkpoint_lock = NoThread
    /\ tasks_pkl = <<>>
    /\ _dfk = None
    /\ loader_calls = <<>>
    /\ strategy \in [strategize : Strategies, idle_since : {None}]
    /\ \E provider \in Providers, executor \in Executors,
          init_blocks \in 0..MaxBlocks :
          /\ init_blocks \in {provider.min_blocks, provider.max_blocks}
          /\ dfk_executors =
                 [type |-> executor.type, workers |-> executor.workers,
                  outstanding |-> 0, provider |-> provider,
                  blocks |-> scale_out(<<>>, init_blocks)]
    /\ now = 0
    /\ last_tick = NoTick

\* The timer calls strategize dt minutes after the latest call.
tick(dt) ==
    /\ now + dt <= MaxTime
    /\ KernelIdle
    /\ now' = now + dt
    /\ LET pass == strategize(strategy.strategize, dfk_executors,
                              strategy.idle_since, now')
           idle == /\ dfk_executors.outstanding = 0
                   /\ active_blocks(dfk_executors)
                          > dfk_executors.provider.min_blocks
       IN  /\ strategy' = [strategy EXCEPT !.idle_since = pass.idle_since]
           /\ \E blocks \in Scaled(dfk_executors.blocks, pass.calls) :
                  dfk_executors' = [dfk_executors EXCEPT !.blocks = blocks]
           /\ last_tick' =
                  [case |-> pass.case, calls |-> pass.calls,
                   raised |-> pass.raised,
                   idle_run |-> IF ~idle THEN None
                                ELSE IF last_tick.idle_run = None THEN now'
                                ELSE last_tick.idle_run]

\* A task is submitted to the executor.
task_submitted ==
    /\ dfk_executors.outstanding < MaxOutstanding
    /\ KernelIdle
    /\ dfk_executors' = [dfk_executors EXCEPT !.outstanding = @ + 1]
    /\ UNCHANGED <<strategy, now, last_tick, _dfk, loader_calls>>

\* A manager with a free worker takes a queued task.
task_dispatched(b) ==
    /\ b \in DOMAIN dfk_executors.blocks
    /\ dfk_executors.blocks[b].tasks = 0
    /\ Cardinality({c \in DOMAIN dfk_executors.blocks :
                        dfk_executors.blocks[c].tasks > 0})
           < dfk_executors.outstanding
    /\ KernelIdle
    /\ dfk_executors' = [dfk_executors EXCEPT !.blocks[b].tasks = 1]
    /\ UNCHANGED <<strategy, now, last_tick, _dfk, loader_calls>>

\* A task ends: its manager is free again and one task less is outstanding.
task_done(b) ==
    /\ b \in DOMAIN dfk_executors.blocks
    /\ dfk_executors.blocks[b].tasks > 0
    /\ KernelIdle
    /\ dfk_executors' = [dfk_executors EXCEPT !.blocks[b].tasks = 0,
                                              !.outstanding = @ - 1]
    /\ UNCHANGED <<strategy, now, last_tick, _dfk, loader_calls>>

\* A manager is put on hold or released: its 'active' flag changes.
manager_held(b) ==
    /\ b \in DOMAIN dfk_executors.blocks
    /\ KernelIdle
    /\ dfk_executors' = [dfk_executors EXCEPT !.blocks[b].active = ~@]
    /\ UNCHANGED <<strategy, now, last_tick, _dfk, loader_calls>>

NextStrategy ==
    \/ \E dt \in 1..2 : tick(dt)
    \/ task_submitted
    \/ \E b \in 1..MaxBlocks : task_dispatched(b)
    \/ \E b \in 1..MaxBlocks : task_done(b)
    \/ \E b \in 1..MaxBlocks : manager_held(b)

SpecStrategy == InitStrategy /\ [][NextStrategy]_vars

\* =================================================================== claims
TaskIds == DOMAIN tasks
DepsOf(t) == {tasks[t].depends[i] : i \in DOMAIN tasks[t].depends}

\* C1: between two consecutive entries of a task into pending, the
\* executor's submit is called at most once for it, whatever threads run
\* launch_if_ready on it.
C1_SingleLaunch ==
    \A t \in TaskIds : hist[t].since_pending <= 1

\* C1 witness: a thread is about to take the launch lock of a task that
\* another launch_if_ready has already submitted since it became pending.
C1_Witness ==
    \E t \in TaskIds, th \in Threads :
        /\ Running(th) /\ Top(th).op = "launch" /\ Top(th).t = t
        /\ hist[t].since_pending = 1

\* C2 as stated: launch_task is invoked at most once per task over the
\* whole run, for every configuration of retries and lazy_errors.
C2_LaunchTaskOnce ==
    \A t \in TaskIds : hist[t].launches <= 1

\* C2 amended: launch_task is invoked once for the submission and once more
\* for each failed attempt that is retried: at most fail_count + 1 times, and
\* at most retries + 1 times with lazy_errors and once without.
C2_LaunchTaskPerAttempt ==
    \A t \in TaskIds :
        /\ hist[t].launches <= tasks[t].fail_count + 1
        /\ hist[t].launches <= AttemptsPerTask

\* C2 witness: a task whose first attempt failed has been launched again.
C2_Witness ==
    \E t \in TaskIds : hist[t].launches = 2 /\ tasks[t].fail_count = 1

\* The edges of the task state machine (unsched->pending is the submission
\* itself, which creates the record).
LegalEdges ==
    {<<"pending", "launched">>, <<"pending", "dep_fail">>,
     <<"launched", "done">>, <<"launched", "pending">>,
     <<"launched", "failed">>}

\* C3: every change of a task's status is an edge of the state machine
\* pending->launched, pending->dep_fail, launched->done, launched->pending,
\* launched->failed, also when the task is completed from a memo hit.
C3_LegalStatusEdges ==
    [][\A t \in TaskIds :
          tasks'[t].status # tasks[t].status =>
              <<tasks[t].status, tasks'[t].status>> \in LegalEdges]_vars

\* C4: once a task's status is done, failed or dep_fail, the status never
\* changes again and the task is never submitted to an executor again.
C4_TerminalIsFinal ==
    [][\A t \in TaskIds :
          tasks[t].status \in FINAL_STATES =>
              /\ tasks'[t].status = tasks[t].status
              /\ hist'[t].submits = hist[t].submits]_vars

\* C5: a task for which launch_task has run (stamping time_submitted and
\* submitting it) has every future of its depends list done.
C5_LaunchAfterDeps ==
    \A t \in TaskIds :
        hist[t].launches > 0 => \A d \in DepsOf(t) : Done(d)

\* C5 witness: a task with dependencies has been submitted to its executor.
C5_Witness ==
    \E t \in TaskIds : hist[t].submits > 0 /\ DepsOf(t) # {}

\* Thread th waits for a launch lock that it holds itself: the lock is not
\* reentrant, so th never runs again.
SelfDeadlocked(th) ==
    /\ Running(th) /\ Top(th).op = "launch"
    /\ tasks[Top(th).t].task_launch_lock = th

\* Thread th still has a launch_if_ready call, or the launch it leads to, to
\* run for task t.
HasProbe(th, t) ==
    \E i \in DOMAIN threads[th] :
        /\ threads[th][i].t = t
        /\ threads[th][i].op \in {"addcb", "lir", "launch", "launched", "heu"}

\* C6: no lost wakeup: a pending task whose dependencies have all completed
\* successfully and that has not been launched since it became pending has
\* a launch_if_ready call outstanding in a thread that can still run, so
\* that it is eventually launched.
C6_NoLostWakeup ==
    \A t \in TaskIds :
        (/\ tasks[t].status = "pending"
         /\ hist[t].since_pending = 0
         /\ \A d \in DepsOf(t) : app_fus[d].state = "ok")
            => \E th \in Threads : HasProbe(th, t) /\ ~SelfDeadlocked(th)

\* The dependencies of t that ended in a final failure.
FailedDepsOf(t) ==
    {d \in DepsOf(t) :
        tasks[d].status \in FINAL_FAILURE_STATES /\ app_fus[d].state = "err"}

\* C7: a task that depends on a task that ended in a final failure gets a
\* DependencyError on its AppFuture: once its AppFuture is complete, it holds
\* nothing else.
C7_DepFailPropagates ==
    \A t \in TaskIds :
        (Done(t) /\ FailedDepsOf(t) # {}) => app_fus[t].exception.kind = "dep"

\* The errors a DependencyError wraps.
CausesOf(e) == {e.causes[i] : i \in DOMAIN e.causes}

\* C8: when a task is in dep_fail and its AppFuture is complete, the
\* AppFuture holds a DependencyError with the task's own id whose causes
\* contain the error of every failed dependency of the task.
C8_DependencyErrorCauses ==
    \A t \in TaskIds :
        (tasks[t].status = "dep_fail" /\ Done(t)) =>
            /\ app_fus[t].exception.kind = "dep"
            /\ app_fus[t].exception.tid = t
            /\ \A d \in DepsOf(t) :
                   app_fus[d].state = "err" =>
                       app_fus[d].exception \in CausesOf(app_fus[t].exception)

\* C9: a task in dep_fail has never been submitted to an executor and has
\* never failed an attempt: its fail_count is 0.
C9_DepFailNeverSubmitted ==
    \A t \in TaskIds :
        tasks[t].status = "dep_fail" =>
            hist[t].submits = 0 /\ tasks[t].fail_count = 0

\* C10: with lazy_errors and retries = R a task is submitted at most R + 1
\* times and its fail_count never exceeds R + 1; without lazy_errors it is
\* submitted at most once, and the first failed attempt makes it failed.
C10_RetryBudget ==
    /\ [](\A t \in TaskIds :
             /\ hist[t].submits <= AttemptsPerTask
             /\ tasks[t].fail_count <= config.retries + 1)
    /\ [][\A t \in TaskIds :
             (~config.lazy_errors /\ tasks'[t].fail_count # tasks[t].fail_count)
                 => (tasks[t].fail_count = 0 /\ tasks'[t].status = "failed")]_vars

\* C10 witness: with a retry budget of at least one, a task has used it up:
\* R + 1 submissions, R + 1 failures, and it is failed.
C10_Witness ==
    \E t \in TaskIds :
        /\ config.lazy_errors /\ config.retries >= 1
        /\ hist[t].submits = config.retries + 1
        /\ tasks[t].fail_count = config.retries + 1
        /\ tasks[t].status = "failed"

\* The calls made for the memo hit of task t (the two handlers, the release
\* of the lock, update_parent and its parent_callback) have all run.
MemoHitHandled(t) ==
    /\ hist[t].cached # <<>>
    /\ \A th \in Threads : \A i \in DOMAIN threads[th] :
           ~(threads[th][i].t = t /\ threads[th][i].f = MemoFu)

\* C11: when launch_task finds the task's fingerprint in the memo table, no
\* executor submit is performed for the task, and once the hit has been
\* handled the task's AppFuture holds the value of the cached future.
C11_MemoHitValue ==
    \A t \in TaskIds :
        hist[t].cached # <<>> =>
            /\ hist[t].submits = 0
            /\ MemoHitHandled(t) =>
                   /\ app_fus[t].state = hist[t].cached[1].state
                   /\ app_fus[t].result = hist[t].cached[1].result

\* The tasks that opted in to memoization and have the fingerprint of task t.
SameFingerprint(t) ==
    {u \in TaskIds :
        /\ Memoizable(tasks[t]) /\ Memoizable(tasks[u])
        /\ tasks[t].hashsum # NoHash /\ tasks[u].hashsum = tasks[t].hashsum}

\* C12: among the memoizable tasks with one fingerprint at most one is
\* submitted to an executor, and every other one that has been handled holds
\* the result of that one.
C12_OneLeader ==
    \A t \in TaskIds : \A u \in SameFingerprint(t) :
        (u # t /\ hist[t].submits > 0) =>
            /\ hist[u].submits = 0
            /\ (MemoHitHandled(u) /\ app_fus[t].state = "ok") =>
                   app_fus[u].result = app_fus[t].result

C14_NoUpdateAfterHit ==
    \A t \in TaskIds : hist[t].cached # <<>> => hist[t].updates = 0

\* C15: in every reachable state, a task whose AppFuture is done has status
\* done, failed or dep_fail.
C15_DoneImpliesFinal ==
    \A t \in TaskIds : Done(t) => tasks[t].status \in FINAL_STATES

\* C16: in every reachable state, a task that opted in to memoization and
\* whose AppFuture is done with a result has its fingerprint in the memo
\* table.
C16_DoneImpliesCached ==
    \A t \in TaskIds :
        (Memoizable(tasks[t]) /\ app_fus[t].state = "ok")
            => tasks[t].hashsum \in DOMAIN memo

\* C17: cleanup returns only in a state where the AppFuture of every task
\* submitted before the call is done: the step on which cleanup shuts the
\* executors down and returns leaves no task that was unfinished at the call
\* still unfinished.
C17_CleanupWaits ==
    [][\A th \in Callers :
          (Running(th) /\ Top(th).op = "shutdown" /\ threads'[th] = <<>>)
              => \A t \in Top(th).x[1] : app_fus'[t].state # "pending"]_vars

\* C18: the shutdown steps of cleanup run at most once per kernel, whatever
\* the number of calls of cleanup and of the exit hook, and whichever threads
\* make them.
C18_ShutdownOnce == calls.shutdown <= 1

\* C19: after any sequence of submit calls made one after the other, those
\* that raise on the executors argument included, the registered task ids
\* are exactly 0..n-1, n being the number of registered tasks.
C19_IdsContiguous ==
    ((\A th \in Callers : threads[th] = <<>>) /\ ~calls.concurrent)
        => DOMAIN tasks = 0..(Cardinality(DOMAIN tasks) - 1)

\* C20: with submit called from several threads, no task record is
\* overwritten: a registered id keeps the record of the call that
\* registered it.
C20_NoOverwrite ==
    [][\A id \in DOMAIN tasks :
          /\ id \in DOMAIN tasks'
          /\ tasks'[id].func_name = tasks[id].func_name]_vars

\* C21: the executor label of a task is chosen once in submit and never
\* changes: the record keeps its label, and every attempt of the task, first
\* or retry, went to the executor the record names.
C21_SameExecutor ==
    /\ [](\A f \in DOMAIN futs : futs[f].executor = tasks[futs[f].tid].executor)
    /\ [][\A t \in DOMAIN tasks : tasks'[t].executor = tasks[t].executor]_vars

C21_Witness ==
    \E t \in DOMAIN tasks :
        /\ tasks[t].executor = "htex"
        /\ hist[t].executors = <<AllExecutors>>
        /\ hist[t].submits = 2
        /\ futs[FutId(t, 2)].executor = "htex"

\* C22 as stated: for every value of the executors argument, 'all' or any
\* list of labels, the executor selected is never 'data_manager'.
C22_NeverStaging ==
    \A t \in DOMAIN tasks : tasks[t].executor # "data_manager"

\* C22, amended: with 'all' the executor selected is one of the kernel's
\* executors other than 'data_manager'; with a list it is a member of the
\* list, so 'data_manager' only when the list names it.
C22_ChosenFromChoices ==
    \A t \in DOMAIN tasks :
        LET executors == hist[t].executors[1]
        IN  /\ executors.kind = "all" =>
                   /\ tasks[t].executor \in config.executors
                   /\ tasks[t].executor # "data_manager"
            /\ executors.kind = "list" =>
                   \E i \in DOMAIN executors.labels :
                       tasks[t].executor = executors.labels[i]

C22_Witness ==
    \E t, u \in DOMAIN tasks :
        /\ hist[t].executors = <<AllExecutors>>
        /\ tasks[t].executor # "data_manager"
        /\ hist[u].executors = <<ListOf(<<"threads", "data_manager">>)>>
        /\ tasks[u].executor = "data_manager"

\* The threads inside the with block of checkpoint.
Writers ==
    {th \in Threads : \E i \in DOMAIN threads[th] :
        threads[th][i].op \in {"ckpt_task", "ckpt_dump"}}

\* C23: for any interleaving of timer, manual and task-exit checkpoint
\* calls, each task is appended to the log at most once in a run, and no two
\* calls are writing to the log at the same time.
C23_CheckpointOnce ==
    /\ \A t \in DOMAIN hist : hist[t].checkpointed <= 1
    /\ Cardinality(Writers) <= 1

C23_Witness ==
    /\ \E th \in Threads :
           /\ Running(th) /\ Top(th).op = "ckpt"
           /\ checkpoint_lock \notin {NoThread, th}
    /\ \E t \in DOMAIN hist : hist[t].checkpointed = 1

\* C24: every record checkpoint appends belongs to a task that opted in to
\* memoization and whose AppFuture is done without error, and the record
\* carries a result and no error.
C24_OnlySuccesses ==
    [][\A th \in Threads :
          (Running(th) /\ Top(th).op = "ckpt_dump" /\ tasks_pkl' # tasks_pkl)
              => /\ Memoizable(tasks[Top(th).t])
                 /\ app_fus[Top(th).t].state = "ok"
                 /\ tasks_pkl'[Len(tasks_pkl')].exception = NoExc]_vars

\* C25: once the memoizable tasks have completed successfully and the
\* task-exit checkpoints have run, loading the log into a new kernel gives a
\* table whose keys are exactly the fingerprints of those tasks, each
\* holding a completed future with the result of a task of that fingerprint.
C25_RoundTrip ==
    LET done == {t \in TaskIds : Memoizable(tasks[t]) /\ app_fus[t].state = "ok"}
        loaded == _load_checkpoints(tasks_pkl)
    IN  (/\ config.checkpoint_mode = "task_exit"
         /\ \A th \in Threads : ~Running(th)
         /\ \A t \in TaskIds : Done(t))
            => /\ loaded.error = "none"
               /\ DOMAIN loaded.table = {tasks[t].hashsum : t \in done}
               /\ \A t \in done :
                      /\ loaded.table[tasks[t].hashsum].state = "ok"
                      /\ \E u \in done :
                             /\ tasks[u].hashsum = tasks[t].hashsum
                             /\ loaded.table[tasks[t].hashsum].result =
                                    app_fus[u].result

\* The complete records of a file whose final record is cut short.
CompleteRecords(file) == SubSeq(file, 1, Len(file) - 1)

\* C26: loading a log whose final record is truncated succeeds: the table
\* holds what the complete records before the tail give, and the tail is
\* the end of the log, not an error.
C26_TruncatedTailIsEOF ==
    (/\ calls.load # <<>>
     /\ calls.load[1].dirs = "rundir"
     /\ tasks_pkl # <<>>
     /\ IsTruncated(tasks_pkl[Len(tasks_pkl)]))
        => /\ calls.load[1].error = "none"
           /\ memo = _load_checkpoints(CompleteRecords(tasks_pkl)).table

\* A step that is one call of strategize.
Tick == now' # now

\* The executor is idle: nothing outstanding and more blocks than min_blocks.
Idle(executor) ==
    /\ executor.outstanding = 0
    /\ active_blocks(executor) > executor.provider.min_blocks

ScaleIns(cs) == {i \in DOMAIN cs : cs[i].op = "scale_in"}

\* C27: over consecutive ticks that find the executor idle, the first idle
\* tick issues no scale-in, and the first tick at which more than
\* max_idletime has passed since the first idle observation issues
\* scale_in(active_blocks - min_blocks).
C27_IdleTimer ==
    [][(Tick /\ Idle(dfk_executors)) =>
          /\ (last_tick.idle_run = None => ScaleIns(last_tick'.calls) = {})
          /\ (/\ last_tick.idle_run # None
              /\ now - last_tick.idle_run <= max_idletime
              /\ now' - last_tick.idle_run > max_idletime
              => last_tick'.calls =
                     <<scale_in_call(active_blocks(dfk_executors)
                           - dfk_executors.provider.min_blocks, {})>>)]_vars

\* C28: a tick that observes active_tasks > 0 leaves idle_since cleared.
C28_BusyClearsIdleSince ==
    [][(Tick /\ dfk_executors.outstanding > 0) =>
          strategy'.idle_since = None]_vars

\* C29: a tick in case 2b requests exactly
\* min(max_blocks - active_blocks,
\*     ceil(ceil(active_tasks * parallelism - active_slots)
\*          / (tasks_per_node * nodes_per_block))) blocks, in one scale_out.
C29_ToRequest ==
    [][(Tick /\ last_tick'.case = "2b") =>
          LET provider == dfk_executors.provider
              blocks == Cardinality(DOMAIN dfk_executors.blocks)
              per_block ==
                  tasks_per_node(strategy.strategize, dfk_executors)
                      * provider.nodes_per_block
              slots == blocks * per_block
              excess == CeilDiv(dfk_executors.outstanding
                                    * provider.parallelism.num
                                    - slots * provider.parallelism.den,
                                provider.parallelism.den)
              excess_blocks == CeilDiv(excess, per_block)
          IN  /\ last_tick'.calls =
                     <<scale_out_call(Minimum(provider.max_blocks - blocks,
                                              excess_blocks))>>
              /\ Cardinality(DOMAIN dfk_executors'.blocks)
                     = blocks + Minimum(provider.max_blocks - blocks,
                                        excess_blocks)]_vars

\* C29 witness: the example of the claim. Three tasks on an executor with
\* no block, min_blocks 0, max_blocks 4, parallelism 1 and one slot per
\* block: the tick has requested 3 blocks, which the executor now has.
C29_Witness ==
    /\ last_tick.case = "2b"
    /\ last_tick.calls = <<scale_out_call(3)>>
    /\ dfk_executors.outstanding = 3
    /\ tasks_per_node(strategy.strategize, dfk_executors) = 1
    /\ dfk_executors.provider =
           [min_blocks |-> 0, max_blocks |-> 4,
            parallelism |-> [num |-> 1, den |-> 1], nodes_per_block |-> 1]
    /\ DOMAIN dfk_executors.blocks = {1, 2, 3}

\* C30: a tick in the over-provisioned case issues at most one scale_in
\* call, which drains at most one block.
C30_OneScaleIn ==
    last_tick.case = "over" =>
        /\ Cardinality(ScaleIns(last_tick.calls)) <= 1
        /\ \A i \in ScaleIns(last_tick.calls) : last_tick.calls[i].n <= 1

\* C37: every scale_out(n) a tick issues has n >= 1 and leaves the executor
\* with at most max_blocks blocks, the stalled case included.
C37_ScaleOutWithinLimits ==
    [][Tick =>
          \A i \in DOMAIN last_tick'.calls :
              last_tick'.calls[i].op = "scale_out" =>
                  /\ last_tick'.calls[i].n >= 1
                  /\ active_blocks(dfk_executors) + last_tick'.calls[i].n
                         <= dfk_executors.provider.max_blocks]_vars

\* C38: the scale_in calls of a tick never leave the executor with fewer
\* than min_blocks blocks, in the idle case and in the over-provisioned case.
C38_ScaleInKeepsMinBlocks ==
    [][(Tick /\ ScaleIns(last_tick'.calls) # {}) =>
          active_blocks(dfk_executors')
              >= dfk_executors.provider.min_blocks]_vars

\* C39, as claimed: a tick that finds active_slots == 0 and active_tasks > 0
\* while the under-provisioned case (active_slots / active_tasks <
\* parallelism and active_blocks < max_blocks) does not apply requests
\* exactly one block.
C39_StalledRequestsOne ==
    [][(/\ Tick
        /\ active_slots(strategy.strategize, dfk_executors) = 0
        /\ dfk_executors.outstanding > 0
        /\ ~(/\ 0 < dfk_executors.provider.parallelism.num
                      * dfk_executors.outstanding
             /\ active_blocks(dfk_executors)
                    < dfk_executors.provider.max_blocks))
       => last_tick'.calls = <<scale_out_call(1)>>]_vars

\* C39, amended: a tick that finds active_slots == 0 and active_tasks > 0
\* requests exactly one block when active_slots / active_tasks < parallelism
\* does not hold, and requests nothing when it holds and active_blocks >=
\* max_blocks.
C39_StalledUnlessRatio ==
    [][(/\ Tick
        /\ active_slots(strategy.strategize, dfk_executors) = 0
        /\ dfk_executors.outstanding > 0)
       => LET ratio == 0 < dfk_executors.provider.parallelism.num
                               * dfk_executors.outstanding
          IN  /\ ~ratio => last_tick'.calls = <<scale_out_call(1)>>
              /\ (/\ ratio
                  /\ active_blocks(dfk_executors)
                         >= dfk_executors.provider.max_blocks)
                 => last_tick'.calls = <<>>]_vars

\* C39 witness: the tick took the stalled case for an executor with
\* outstanding tasks and no block; the executor now has the one block
\* requested.
C39_Witness ==
    /\ last_tick.case = "stalled"
    /\ last_tick.calls = <<scale_out_call(1)>>
    /\ dfk_executors.outstanding > 0
    /\ dfk_executors.provider.parallelism.num = 0
    /\ active_blocks(dfk_executors) = 1

C33_NoSelfDeadlock ==
    \A th \in Threads : ~SelfDeadlocked(th)

\* C34: the dep_fail transition is performed at most once for a task: the
\* status is set to dep_fail, and a DependencyError future is created and
\* bound to the AppFuture, only for a task for which this has not been done.
C34_DepFailOnce ==
    [][\A th \in Threads :
          (Running(th) /\ threads'[th] # threads[th]) =>
              /\ Top(th).op = "depfail" =>
                     tasks[Top(th).t].status # "dep_fail"
              /\ Top(th).op = "depfail_fu" =>
                     tasks[Top(th).t].exec_fu # DepFailFu]_vars

\* C35: a task is never submitted to an executor when one of its
\* dependencies completed with an error, and the call it is submitted with
\* has lost no argument: every argument of a task here is one of its
\* dependencies, so args, kwargs and inputs together are as many as depends.
C35_NoLaunchAfterDepError ==
    [][\A t \in TaskIds :
          hist'[t].submits > hist[t].submits =>
              /\ \A d \in DepsOf(t) : app_fus[d].state # "err"
              /\ Len(tasks'[t].args) + Len(tasks'[t].kwargs)
                     + Len(tasks'[t].inputs) = Len(tasks[t].depends)]_vars

\* C36: every failed attempt of a task, whether its future holds an
\* exception or completed with a wrapped remote exception, appends the
\* attempt's error to fail_history: fail_history holds exactly fail_count
\* errors and no empty entry.
C36_FailHistoryHoldsErrors ==
    \A t \in TaskIds :
        /\ Len(tasks[t].fail_history) = tasks[t].fail_count
        /\ \A i \in DOMAIN tasks[t].fail_history :
               tasks[t].fail_history[i] = AppError(t)

\* C32: a stage_out on the task's own executor is issued for a remote output
\* file of a task only after the task's AppFuture is done without error,
\* never for a task that failed, for a task on the staging executor or for a
\* stage-in task; each remote output is staged out once per task, and all of
\* them are once handle_app_update has run for the finished task.
C32_StageOutAfterSuccess ==
    \A t \in TaskIds :
        LET staged == hist[t].stage_outs
            outputs == OutputsOf(tasks[t].func_name)
            RemoteOutputs == {i \in DOMAIN outputs : outputs[i] = "remote"}
        IN  /\ \A i \in DOMAIN staged :
                   /\ app_fus[t].state = "ok"
                   /\ staged[i].executor = tasks[t].executor
                   /\ staged[i].file \in RemoteOutputs
                   /\ tasks[t].executor # "data_manager"
                   /\ tasks[t].func_name \notin StageInApps
                   /\ \A j \in DOMAIN staged :
                          staged[j].file = staged[i].file => j = i
            /\ (/\ hist[t].updates > 0
                /\ app_fus[t].state = "ok"
                /\ tasks[t].executor # "data_manager"
                /\ tasks[t].func_name \notin StageInApps)
               => \A f \in RemoteOutputs :
                      \E i \in DOMAIN staged : staged[i].file = f

\* C32 witness: the remote output of a task of app g on htex has been staged
\* out on htex, and a task with a remote output that ran on the staging
\* executor or is a stage-in task has finished without error and without a
\* stage_out.
C32_Witness ==
    \E t, u \in TaskIds :
        /\ tasks[t].func_name = "g" /\ tasks[t].executor = "htex"
        /\ hist[t].stage_outs = <<[file |-> 1, executor |-> "htex"]>>
        /\ app_fus[u].state = "ok" /\ hist[u].updates > 0
        /\ \E i \in DOMAIN OutputsOf(tasks[u].func_name) :
               OutputsOf(tasks[u].func_name)[i] = "remote"
        /\ hist[u].stage_outs = <<>>

\* C31: the loader holds at most one kernel: a load returns a kernel exactly
\* when none is registered, and that new kernel becomes the registered one;
\* a load while one is registered raises RuntimeError and leaves the
\* registered kernel unchanged; dfk() raises RuntimeError exactly when none
\* is registered and otherwise returns the registered kernel; clear leaves
\* none registered, so that the load after a clear succeeds.
C31_LoaderHoldsOneKernel ==
    [][loader_calls' # loader_calls =>
        LET call == loader_calls'[Len(loader_calls')]
            Constructed == {loader_calls[i].returned : i \in
                               {j \in DOMAIN loader_calls :
                                   loader_calls[j].op = "load"}}
        IN  /\ loader_calls' = Append(loader_calls, call)
            /\ call.op = "load" =>
                   /\ (call.raised = "") <=> (_dfk = None)
                   /\ call.raised = "" =>
                          /\ call.returned # None
                          /\ call.returned \notin Constructed
                          /\ _dfk' = call.returned
                   /\ call.raised # "" =>
                          /\ call.raised =
                                 "RuntimeError: Config has already been loaded"
                          /\ call.returned = None
                          /\ _dfk' = _dfk
                   /\ (loader_calls # <<>>
                       /\ loader_calls[Len(loader_calls)].op = "clear")
                      => call.raised = ""
            /\ call.op = "dfk" =>
                   /\ (call.raised # "") <=> (_dfk = None)
                   /\ call.raised # "" =>
                          call.raised = "RuntimeError: Must first load config"
                   /\ call.raised = "" => call.returned = _dfk
                   /\ _dfk' = _dfk
            /\ call.op = "clear" => _dfk' = None]_vars

\* C31 witness: a load succeeded, a second load raised and left that kernel
\* registered, clear removed it, dfk() raised, and a new load returned
\* another kernel, which is the registered one.
C31_Witness ==
    /\ Len(loader_calls) = 5
    /\ loader_calls[1].op = "load" /\ loader_calls[1].raised = ""
    /\ loader_calls[2].op = "load" /\ loader_calls[2].raised # ""
    /\ loader_calls[3].op = "clear"
    /\ loader_calls[4].op = "dfk" /\ loader_calls[4].raised # ""
    /\ loader_calls[5].op = "load" /\ loader_calls[5].raised = ""
    /\ loader_calls[5].returned # loader_calls[1].returned
    /\ _dfk = loader_calls[5].returned

====
